---- MODULE Spec2Model ----
(***************************************************************************)
(* Model of the losh command runner (src/bin/losh.js): parameter parsing   *)
(* and binding (Executable.params / usage / run), the command registry     *)
(* (System.commands / initCommands / execute) and the placeholder engine   *)
(* (Executable.replace), the sequential runner (Executable.for), form      *)
(* collection (Executable.form) and the generate handler.                  *)
(*                                                                         *)
(* JavaScript values are tagged records: undefined, null, strings (a       *)
(* sequence of one-character strings) and arrays.  Truthy and Or are the   *)
(* language's truthiness and `||`.                                         *)
(***************************************************************************)
EXTENDS Integers, Sequences, FiniteSets, TLC

VARIABLES exe, res, out, sys, fs, rep, chain, frm, gen, proc, lg, dep, wr, og

vars == <<exe, res, out, sys, fs, rep, chain, frm, gen, proc, lg, dep, wr, og>>

\* the variables outside each part of the model
exeVars == <<exe, res, out>>
sysVars == <<sys, fs>>
repVars == <<rep>>
flowVars == <<chain, frm, gen>>
runVars == <<proc, lg, dep, wr, og>>

\* ------------------------------------------------------------------ bounds
MaxParams == 2
MaxArgs == 3
MaxFiles == 2
MaxSegs == 3

\* ------------------------------------------------------- JavaScript values
Undef == [t |-> "undef"]
Null == [t |-> "null"]
Str(s) == [t |-> "str", s |-> s]
Arr(a) == [t |-> "arr", a |-> a]

Truthy(v) == \/ v.t = "arr"
             \/ (v.t = "str" /\ v.s # <<>>)

Or(a, b) == IF Truthy(a) THEN a ELSE b

\* array[i] with a zero-based index; out of range reads give undefined
At(a, i) == IF i >= 0 /\ i < Len(a) THEN a[i + 1] ELSE Undef

IsArray(v) == v.t = "arr"

RECURSIVE Join(_, _)
Join(strs, sep) ==
  IF Len(strs) = 0 THEN <<>>
  ELSE IF Len(strs) = 1 THEN strs[1].s
  ELSE strs[1].s \o sep \o Join(Tail(strs), sep)

StartsWith(s, c) == Len(s) >= 1 /\ s[1] = c

\* ---------------------------------------------------------------- errors
NoError == [class |-> "none"]

\* a message is a sequence of pieces: literal text, a [key] placeholder of
\* the log format, or an inserted value
Lit(s) == [lit |-> s]
Ph(k) == [ph |-> k]
Val(v) == [val |-> v]

MsgRequired == <<Lit("The argument "), Ph("!argument"), Lit(" is required!")>>
MsgExtname == <<Lit("The extname "), Ph("@extname"), Lit(" is unknown.")>>
MsgNotFound == <<Lit("Command "), Ph("@command"), Lit(" not found!")>>
MsgAssignConst == <<Lit("Assignment to constant variable.")>>
MsgHandler == <<Lit("handler failed")>>
MsgNotCallable == <<Lit("this.factory.call is not a function")>>
MsgStringProp == <<Lit("Cannot create property 'args' on string")>>

LoshError(msg, printed) == [class |-> "LoshError", message |-> msg, printed |-> printed]
TypeError(msg) == [class |-> "TypeError", message |-> msg, printed |-> FALSE]

\* Log.replace: every [key] of the message that the placeholders define is
\* replaced by its value
LogReplace(msg, placeholders) ==
  [k \in 1..Len(msg) |->
     IF "ph" \in DOMAIN msg[k] /\ msg[k].ph \in DOMAIN placeholders
       THEN Val(placeholders[msg[k].ph])
       ELSE msg[k]]

\* a mutation of LogErrorMsg: the printed line is the message as passed
LogErrorMsgRaw(msg, placeholders) ==
  [line |-> [level |-> "error", text |-> msg],
   error |-> LoshError(msg, TRUE)]

\* Log.error with a message string: prints the rendered message and
\* returns a new LoshError of the message as it was passed, marked printed
LogErrorMsg(msg, placeholders) ==
  [line |-> [level |-> "error", text |-> LogReplace(msg, placeholders)],
   error |-> LoshError(msg, TRUE)]

\* Log.failed with an Error: prints it unless it was printed before
LogFailedErr(err) ==
  [lines |-> IF err.printed THEN <<>>
             ELSE <<[level |-> "failed", text |-> err.message]>>,
   error |-> [err EXCEPT !.printed = TRUE]]

\* the one value of a one-element set: a sub-result computed once
The(S) == CHOOSE x \in S : TRUE

\* ------------------------------------------------------ Executable.replace
\* the characters of [a-zA-Z0-9] and of [a-z] that occur in the model
Alnum == {"a", "b", "p", "q", "r", "v", "w", "x", "A", "0"}
Lower == {"a", "b", "p", "q", "r", "v", "w", "x"}
\* [^!a-zA-Z0-9] is every character outside KeyChars
KeyChars == Alnum \cup {"!"}

\* the end (exclusive) of the longest run from p of characters in / not in S
RECURSIVE SkipIn(_, _, _)
SkipIn(c, p, S) == IF p <= Len(c) /\ c[p] \in S THEN SkipIn(c, p + 1, S) ELSE p

RECURSIVE SkipNotIn(_, _, _)
SkipNotIn(c, p, S) == IF p <= Len(c) /\ c[p] \notin S THEN SkipNotIn(c, p + 1, S) ELSE p

MaxOf(S) == CHOOSE x \in S : \A y \in S : y <= x

\* the match of \{\{([^!a-zA-Z0-9]*)(!?[a-zA-Z0-9]+)([^!a-zA-Z0-9]*)\}\} that
\* starts at p: both decoration groups are greedy, the closing braces are
\* the last `}}` of the decoration run after the key
BagMatch(c, p) ==
  IF p + 1 <= Len(c) /\ c[p] = "{" /\ c[p + 1] = "{"
    THEN LET e1 == SkipNotIn(c, p + 2, KeyChars)
             k0 == IF e1 <= Len(c) /\ c[e1] = "!" THEN e1 + 1 ELSE e1
             e2 == SkipIn(c, k0, Alnum)
             e3 == SkipNotIn(c, e2, KeyChars)
             closes == {j \in e2..(e3 - 2) : c[j] = "}" /\ c[j + 1] = "}"}
         IN IF e2 > k0 /\ closes # {}
              THEN [ok |-> TRUE, pre |-> SubSeq(c, p + 2, e1 - 1),
                    sel |-> SubSeq(c, e1, e2 - 1),
                    post |-> SubSeq(c, e2, MaxOf(closes) - 1),
                    end |-> MaxOf(closes) + 2]
              ELSE [ok |-> FALSE, pre |-> <<>>, sel |-> <<>>, post |-> <<>>, end |-> p]
    ELSE [ok |-> FALSE, pre |-> <<>>, sel |-> <<>>, post |-> <<>>, end |-> p]

\* bag[key]
BagGet(bag, key) == IF key \in DOMAIN bag THEN bag[key] ELSE Undef

\* a mutation of BagCallback: a required key that is missing does not mark
\* the call
BagCallbackLenient(bag, m) ==
  LET required == StartsWith(m.sel, "!")
      selected == IF required THEN Tail(m.sel) ELSE m.sel
      v == BagGet(bag, selected)
  IN [text |-> IF Truthy(v) THEN m.pre \o v.s \o m.post ELSE <<>>,
      breaked |-> FALSE]

\* a mutation of BagCallback: the decorations of a plain placeholder stay
\* when its key has no value
BagCallbackKeepDeco(bag, m) ==
  LET required == StartsWith(m.sel, "!")
      selected == IF required THEN Tail(m.sel) ELSE m.sel
      v == BagGet(bag, selected)
  IN IF required /\ (v = Null \/ v = Undef)
       THEN [text |-> <<>>, breaked |-> TRUE]
       ELSE [text |-> m.pre \o (IF Truthy(v) THEN v.s ELSE <<>>) \o m.post,
             breaked |-> FALSE]

\* the callback of the first pass: [text, breaked]
BagCallback(bag, m) ==
  LET required == StartsWith(m.sel, "!")
      selected == IF required THEN Tail(m.sel) ELSE m.sel
      v == BagGet(bag, selected)
  IN IF required /\ (v = Null \/ v = Undef)
       THEN [text |-> <<>>, breaked |-> TRUE]
       ELSE [text |-> IF Truthy(v) THEN m.pre \o v.s \o m.post ELSE <<>>,
             breaked |-> FALSE]

\* content.replace(/.../g, callback) of the first pass, scanning from p
RECURSIVE BagPass(_, _, _, _, _)
BagPass(c, p, bag, acc, breaked) ==
  IF p > Len(c) THEN [text |-> acc, breaked |-> breaked]
  ELSE The({ IF m.ok
               THEN The({ BagPass(c, m.end, bag, acc \o r.text, breaked \/ r.breaked)
                          : r \in {BagCallback(bag, m)} })
               ELSE BagPass(c, p + 1, bag, Append(acc, c[p]), breaked)
             : m \in {BagMatch(c, p)} })

\* a mutation of PathMatch: the name is cut after its first letter (the
\* token is matched as the prefix `@r`, whatever letters follow)
PathMatchPrefix(c, p) ==
  IF c[p] = "@"
    THEN LET k0 == IF p + 1 <= Len(c) /\ c[p + 1] = "!" THEN p + 2 ELSE p + 1
             e == IF k0 <= Len(c) /\ c[k0] \in Lower THEN k0 + 1 ELSE k0
         IN IF e > k0
              THEN [ok |-> TRUE, sel |-> SubSeq(c, p + 1, e - 1), end |-> e]
              ELSE [ok |-> FALSE, sel |-> <<>>, end |-> p]
    ELSE [ok |-> FALSE, sel |-> <<>>, end |-> p]

\* the match of @(!?[a-z]+) that starts at p
PathMatch(c, p) ==
  IF c[p] = "@"
    THEN LET k0 == IF p + 1 <= Len(c) /\ c[p + 1] = "!" THEN p + 2 ELSE p + 1
             e == SkipIn(c, k0, Lower)
         IN IF e > k0
              THEN [ok |-> TRUE, sel |-> SubSeq(c, p + 1, e - 1), end |-> e]
              ELSE [ok |-> FALSE, sel |-> <<>>, end |-> p]
    ELSE [ok |-> FALSE, sel |-> <<>>, end |-> p]

\* the callback of the second pass against this.system.paths
PathCallback(paths, c, p, m) ==
  IF StartsWith(m.sel, "!")
    THEN IF Truthy(BagGet(paths, Tail(m.sel)))
           THEN [text |-> BagGet(paths, Tail(m.sel)).s, breaked |-> FALSE]
           ELSE [text |-> <<>>, breaked |-> TRUE]
    ELSE [text |-> IF Truthy(BagGet(paths, m.sel)) THEN BagGet(paths, m.sel).s
                   ELSE SubSeq(c, p, m.end - 1),
          breaked |-> FALSE]

RECURSIVE PathPass(_, _, _, _, _)
PathPass(c, p, paths, acc, breaked) ==
  IF p > Len(c) THEN [text |-> acc, breaked |-> breaked]
  ELSE The({ IF m.ok
               THEN The({ PathPass(c, m.end, paths, acc \o r.text, breaked \/ r.breaked)
                          : r \in {PathCallback(paths, c, p, m)} })
               ELSE PathPass(c, p + 1, paths, Append(acc, c[p]), breaked)
             : m \in {PathMatch(c, p)} })

\* replace(content, bag, strict): throws ReplaceLoshError, returns null, or
\* returns the substituted string
ReplaceOp(content, bag, paths, strict) ==
  The({ IF b.breaked
          THEN [kind |-> IF strict THEN "throw" ELSE "null", s |-> <<>>]
          ELSE The({ IF q.breaked
                       THEN [kind |-> IF strict THEN "throw" ELSE "null", s |-> <<>>]
                       ELSE [kind |-> "string", s |-> q.text]
                     : q \in {PathPass(b.text, 1, paths, <<>>, FALSE)} })
        : b \in {BagPass(content, 1, bag, <<>>, FALSE)} })

\* system.paths: a root that is set; every other name is unset
Paths == (<<"r">> :> Str(<<"/", "p">>))

\* the pieces templates are put together from
Segments ==
  { <<"{", "{", "!", "a", "}", "}">>,
    <<"{", "{", "a", "}", "}">>,
    <<"{", "{", "|", "b", " ", "}", "}">>,
    <<"{", "{", "|", "!", "b", " ", "}", "}">>,
    <<"@", "r">>,
    <<"@", "q">>,
    <<"@", "!", "r">>,
    <<"@", "!", "q">>,
    <<"x">>,
    <<"{", "{">>,
    <<"}", "}">> }

RECURSIVE TemplatesOfSegs(_)
TemplatesOfSegs(n) ==
  IF n = 0 THEN {<<>>}
  ELSE {t \o g : t \in TemplatesOfSegs(n - 1), g \in Segments}

Templates == UNION {TemplatesOfSegs(n) : n \in 0..MaxSegs}

\* bags: each of a and b is unset, null, empty or a string
BagsA == {<<>>, (<<"a">> :> Null), (<<"a">> :> Str(<<>>)), (<<"a">> :> Str(<<"v">>)),
          (<<"a">> :> Str(<<"@", "r">>))}
BagsB == {<<>>, (<<"b">> :> Null), (<<"b">> :> Str(<<>>)), (<<"b">> :> Str(<<"w">>))}
Bags == {x @@ y : x \in BagsA, y \in BagsB}

NoRep == [called |-> FALSE, content |-> <<>>, bag |-> <<>>, strict |-> FALSE,
          result |-> [kind |-> "none", s |-> <<>>]]

\* ------------------------------------------------ Executable.params (getter)
\* a mutation of ParseParam: the brackets of required and optional swapped
ParseParamSwapped(value) ==
  LET name == At(value, 0).s
      options == At(value, 2)
      required == StartsWith(name, "!")
      pname == IF required THEN Tail(name) ELSE name
      popts == IF Truthy(options)
                 THEN (IF IsArray(options) THEN options ELSE Arr(<<options>>))
                 ELSE Null
      pfall == Or(At(value, 3), Null)
      u1 == IF Truthy(popts) THEN Join(popts.a, <<"|">>) ELSE pname
      u2 == u1 \o (IF Truthy(pfall) THEN <<"=">> \o pfall.s ELSE <<>>)
  IN [name |-> pname, required |-> required,
      description |-> Or(At(value, 1), Null),
      options |-> popts, fallback |-> pfall, type |-> "argument",
      usage |-> IF required THEN <<"[">> \o u2 \o <<"]">> ELSE <<"<">> \o u2 \o <<">">>]

\* the loop body for one declared tuple [name, description, options, fallback]
ParseParam(value) ==
  LET name == At(value, 0).s
      description == At(value, 1)
      options == At(value, 2)
      fallback == At(value, 3)
      required == StartsWith(name, "!")
      pname == IF required THEN Tail(name) ELSE name
      popts == IF Truthy(options)
                 THEN (IF IsArray(options) THEN options ELSE Arr(<<options>>))
                 ELSE Null
      pfall == Or(fallback, Null)
      u1 == IF Truthy(popts) THEN Join(popts.a, <<"|">>) ELSE pname
      u2 == u1 \o (IF Truthy(pfall) THEN <<"=">> \o pfall.s ELSE <<>>)
      u3 == IF required THEN <<"<">> \o u2 \o <<">">> ELSE <<"[">> \o u2 \o <<"]">>
  IN [name |-> pname, required |-> required,
      description |-> Or(description, Null),
      options |-> popts, fallback |-> pfall,
      type |-> "argument", usage |-> u3]

\* `for (const value of params)`: an entry that is not an array reaches
\* `value = [value]`, an assignment to a const binding, which throws a
\* TypeError; the entries parsed before it stay in this._params
RECURSIVE ParseLoop(_, _, _)
ParseLoop(decl, k, acc) ==
  IF k > Len(decl) THEN [list |-> acc, threw |-> FALSE]
  ELSE IF ~IsArray(decl[k]) THEN [list |-> acc, threw |-> TRUE]
  ELSE ParseLoop(decl, k + 1, Append(acc, ParseParam(decl[k].a)))

\* this.factory: null for a script file, the handler function otherwise
FactoryParams(e) == IF e.extname = ".js" THEN e.factoryParams ELSE Undef

\* the getter: [list, threw, cache] = value returned (when it does not
\* throw), whether it threw, and this._params afterwards
ParamsGetter(e) ==
  IF e._params # Undef
    THEN [list |-> e._params.a, threw |-> FALSE, cache |-> e._params]
    ELSE LET params == Or(FactoryParams(e), Null)
         IN IF params = Null
              THEN [list |-> <<>>, threw |-> FALSE, cache |-> Arr(<<>>)]
              ELSE LET p == ParseLoop(params.a, 1, <<>>)
                   IN [list |-> p.list, threw |-> p.threw, cache |-> Arr(p.list)]

\* Executable.usage: 'losh', the name and every parameter's usage, joined
\* by a blank
UsageOf(name, list) ==
  Join(<<Str(<<"l","o","s","h">>), Str(name)>>
         \o [k \in 1..Len(list) |-> Str(list[k].usage)], <<" ">>)

\* ----------------------------------------------------------- Executable
\* new Executable(system, name, file): a script or module path keeps the
\* factory unresolved, a function is the factory itself (file = null)
NewExecutable(name, extname, factoryParams, handler) ==
  [name |-> name, extname |-> extname, factoryParams |-> factoryParams,
   handler |-> handler, _params |-> Undef, _args |-> Undef, args |-> Undef]

NoArgs == [ov |-> <<>>, named |-> <<>>]

\* `i < (args.length < this.params.length ? this.params.length : args.length)`
LoopLimit(args, params) ==
  IF Len(args) < Len(params) THEN Len(params) ELSE Len(args)

\* a mutation of BoundValue: the fallback is never applied
BoundValueNoFallback(args, i, p) == Or(At(args, i), Null)

\* a mutation of BoundValue: a required parameter never takes its fallback
BoundValueStrict(args, i, p) ==
  IF p.required THEN Or(At(args, i), Null) ELSE Or(At(args, i), p.fallback)

\* `args[i] || this.params[i].fallback`
BoundValue(args, i, p) == Or(At(args, i), p.fallback)

\* a mutation of RequiredMissing: the test is against undefined
RequiredMissingUndefined(p, v) == p.required /\ v = Undef

\* `this.params[i].required && this.args[name] === null`
RequiredMissing(p, v) == p.required /\ v = Null

\* the binding loop of run: position i binds args[i] || fallback to the
\* i-th parameter and returns at the first required one left null; the
\* positions past the declared parameters go to the overflow `_`
RECURSIVE BindLoop(_, _, _, _)
BindLoop(params, args, i, acc) ==
  IF i >= LoopLimit(args, params) THEN [args |-> acc, missing |-> -1]
  ELSE IF i < Len(params)
    THEN LET p == params[i + 1]
             v == BoundValue(args, i, p)
             acc2 == [acc EXCEPT !.named = (p.name :> v) @@ acc.named]
         IN IF RequiredMissing(p, v)
              THEN [args |-> acc2, missing |-> i]
              ELSE BindLoop(params, args, i + 1, acc2)
    ELSE BindLoop(params, args, i + 1,
                  [acc EXCEPT !.ov = Append(acc.ov, At(args, i))])

\* `if (this.params.length) { for ... }`
Bind(params, args) ==
  IF Len(params) > 0 THEN BindLoop(params, args, 0, NoArgs)
  ELSE [args |-> NoArgs, missing |-> -1]

JsOutcomes == {"return", "returnError", "throw"}
ShOutcomes == {"exit0", "exit1", "spawnError"}
ObjectOutcomes == {"object"}
StringOutcomes == {"string"}
NotCallableOutcomes == {"notCallable"}

OutcomesOf(e) ==
  IF e.extname = ".sh" THEN ShOutcomes
  ELSE IF e.handler = "fn" THEN JsOutcomes
  ELSE IF e.handler = "Object" THEN ObjectOutcomes
  ELSE IF e.handler = "toString" THEN StringOutcomes
  ELSE NotCallableOutcomes

NoRes ==
  [op |-> "none", call |-> <<>>, settled |-> "none", isError |-> FALSE,
   error |-> NoError, args |-> Undef, value |-> Undef,
   initStarted |-> FALSE, handlerStarted |-> FALSE, scriptStarted |-> FALSE]

\* the body of run after binding: init(), then the handler or the script
RunBody(e, args, outcome) ==
  LET base == [NoRes EXCEPT !.op = "run", !.settled = "fulfilled",
                            !.initStarted = TRUE]
  IN IF e.extname = ".js"
       THEN LET started == [base EXCEPT !.handlerStarted = TRUE]
            IN CASE outcome \in {"return", "object"} ->
                      [res |-> [started EXCEPT !.args = Arr(args)], out |-> <<>>]
                 [] outcome = "returnError" ->
                      [res |-> [started EXCEPT !.args = Arr(args),
                                  !.error = LoshError(MsgHandler, TRUE)],
                       out |-> <<>>]
                 [] outcome = "throw" ->
                      LET f == LogFailedErr(LoshError(MsgHandler, FALSE))
                      IN [res |-> [started EXCEPT !.isError = TRUE, !.error = f.error],
                          out |-> f.lines]
                 [] outcome = "string" ->
                      \* `data.args = args` on a primitive string throws in
                      \* strict code and is caught
                      LET f == LogFailedErr(TypeError(MsgStringProp))
                      IN [res |-> [started EXCEPT !.isError = TRUE, !.error = f.error],
                          out |-> f.lines]
                 [] OTHER ->
                      \* the factory is not a function: the call throws
                      LET f == LogFailedErr(TypeError(MsgNotCallable))
                      IN [res |-> [base EXCEPT !.isError = TRUE, !.error = f.error],
                          out |-> f.lines]
       ELSE LET started == [base EXCEPT !.scriptStarted = TRUE]
            IN CASE outcome = "exit0" -> [res |-> started, out |-> <<>>]
                 [] outcome = "exit1" ->
                      [res |-> [started EXCEPT !.error = LoshError(<<Lit("Exit with code: 1")>>, FALSE)],
                       out |-> <<>>]
                 [] OTHER ->
                      LET l == LogErrorMsg(<<Lit("spawn failed")>>, <<>>)
                      IN [res |-> [started EXCEPT !.settled = "rejected",
                                     !.error = TypeError(<<Lit("spawn failed")>>)],
                          out |-> <<l.line>>]

\* Executable.run(args): [exe, res, out] afterwards
RunOp(e, args, outcome) ==
  LET e1 == [e EXCEPT !._args = Arr(args), !.args = NoArgs]
      g == ParamsGetter(e1)
      e2 == [e1 EXCEPT !._params = g.cache]
  IN IF g.threw
       THEN [exe |-> e2,
             res |-> [NoRes EXCEPT !.op = "run", !.settled = "rejected",
                        !.isError = TRUE, !.error = TypeError(MsgAssignConst)],
             out |-> <<>>]
       ELSE LET b == Bind(g.list, args)
                e3 == [e2 EXCEPT !.args = b.args]
            IN IF b.missing >= 0
                 THEN LET l == LogErrorMsg(MsgRequired,
                                  ("!argument" :> g.list[b.missing + 1].name))
                      IN [exe |-> e3,
                          res |-> [NoRes EXCEPT !.op = "run", !.settled = "fulfilled",
                                     !.args = Arr(args), !.error = l.error],
                          out |-> <<l.line>>]
                 ELSE LET r == RunBody(e3, args, outcome)
                      IN [exe |-> e3, res |-> r.res, out |-> r.out]

\* ------------------------------------------------- declared parameter lists
\* the name declared at position k: a, aa, aaa, ... (pairwise distinct)
NameOf(k) == [j \in 1..k |-> "a"]

Opt1 == Str(<<"o">>)
Opt2 == Str(<<"p">>)
Fallback == Str(<<"f">>)
Descr == Str(<<"d">>)

\* the tuple forms [name, description?, options?, fallback?] of one entry
TupleShapes(n) ==
  { Arr(<<Str(n)>>),
    Arr(<<Str(n), Descr, Arr(<<Opt1, Opt2>>)>>),
    Arr(<<Str(n), Null, Opt1, Fallback>>),
    Arr(<<Str(n), Null, Null, Fallback>>),
    Arr(<<Str(n), Null, Arr(<<>>), Str(<<>>)>>) }

\* the same forms under a name with the `!` marker
RequiredShapes(n) ==
  { Arr(<<Str(<<"!">> \o n)>>),
    Arr(<<Str(<<"!">> \o n), Descr, Arr(<<Opt1, Opt2>>)>>),
    Arr(<<Str(<<"!">> \o n), Null, Null, Fallback>>) }

TupleEntries ==
  [k \in 1..MaxParams |-> TupleShapes(NameOf(k)) \cup RequiredShapes(NameOf(k))]

\* entries for the lists that may hold a bare name
BareEntries ==
  [k \in 1..MaxParams |->
     { Str(NameOf(k)), Arr(<<Str(NameOf(k))>>), Arr(<<Str(<<"!">> \o NameOf(k))>>),
       Arr(<<Str(NameOf(k)), Null, Null, Fallback>>) }]

RECURSIVE DeclsOfLen(_, _)
DeclsOfLen(n, Entries) ==
  IF n = 0 THEN {<<>>}
  ELSE {Append(d, s) : d \in DeclsOfLen(n - 1, Entries), s \in Entries[n]}

Decls(Entries) == UNION {DeclsOfLen(n, Entries) : n \in 0..MaxParams}

ArgValues == {Str(<<>>), Str(<<"x">>)}

RECURSIVE ArgsOfLen(_)
ArgsOfLen(n) ==
  IF n = 0 THEN {<<>>}
  ELSE {Append(a, v) : a \in ArgsOfLen(n - 1), v \in ArgValues}

ArgLists == UNION {ArgsOfLen(n) : n \in 0..MaxArgs}

CmdName == <<"b">>

\* the handler and script outcomes drawn when one executable is run alone
ExeOutcomes == {"return", "throw", "exit0", "exit1"}

\* ------------------------------------------------------------------ System
\* a command name is a one-piece string
Name(w) == <<w>>

\* the built-in native commands in the order the getter registers them,
\* each with the `params` property of its function
Builtins ==
  << [fn |-> "cr", params |-> Undef],
     [fn |-> "cex", params |-> Undef],
     [fn |-> "cim", params |-> Undef],
     [fn |-> "version", params |-> Arr(<<>>)],
     [fn |-> "debug", params |-> Undef],
     [fn |-> "list", params |-> Arr(<<Arr(<<Str(Name("type")), Str(Name("The information")),
                                          Arr(<<Str(Name("full")), Str(Name("simple")),
                                                Str(Name("usage")), Str(Name("format"))>>),
                                          Str(Name("format"))>>)>>)],
     [fn |-> "generate", params |-> Arr(<<Arr(<<Str(Name("name"))>>)>>)],
     [fn |-> "test", params |-> Undef],
     [fn |-> "install", params |-> Arr(<<Arr(<<Str(Name("package")),
                                             Str(Name("The name of the package."))>>)>>)],
     [fn |-> "uninstall", params |-> Undef] >>

NativeEntry(b) == [kind |-> "native", fn |-> b.fn, ext |-> ".js", params |-> b.params]
FileEntry(f) == [kind |-> "file", fn |-> f.base, ext |-> f.ext, params |-> f.params]
ProtoEntry(fn) == [kind |-> "proto", fn |-> fn, ext |-> ".js", params |-> Undef]

\* the properties every plain object inherits: the registry is `{}`
ObjectPrototype ==
  (Name("constructor") :> ProtoEntry("Object")) @@
  (Name("toString") :> ProtoEntry("toString"))

\* a mutation of Register: an entry already present is kept
RegisterFirstWins(commands, key, entry) ==
  IF key \in DOMAIN commands THEN commands ELSE (key :> entry) @@ commands

\* `this._commands[name] = ...`
Register(commands, key, entry) == (key :> entry) @@ commands

IsCommandFile(f) == f.ext \in {".js", ".sh"}

\* initCommands(path) for a directory: every .js and .sh file of the
\* listing, in listing order, under the file name without its suffix
RECURSIVE InitCommandsDir(_, _, _)
InitCommandsDir(commands, listing, k) ==
  IF k > Len(listing) THEN commands
  ELSE InitCommandsDir(
         IF IsCommandFile(listing[k])
           THEN Register(commands, Name(listing[k].base), FileEntry(listing[k]))
           ELSE commands,
         listing, k + 1)

\* initCommands(fn) for each built-in function, in order
RECURSIVE InitCommandsNative(_, _)
InitCommandsNative(commands, k) ==
  IF k > Len(Builtins) THEN commands
  ELSE InitCommandsNative(
         Register(commands, Name(Builtins[k].fn), NativeEntry(Builtins[k])), k + 1)

\* the registry the getter builds: built-ins, then the extension directory
\* when paths.extension is set
BuildCommands(f) ==
  LET native == InitCommandsNative(<<>>, 1)
  IN IF f.extension THEN InitCommandsDir(native, f.dir, 1) ELSE native

\* a mutation of Commands: the registry is rebuilt on every access
CommandsRebuilt(s, f) == [s EXCEPT !._commands = Arr(BuildCommands(f))]

\* `get commands`: built on the first access, the cached object afterwards
Commands(s, f) ==
  IF s._commands = Null THEN [s EXCEPT !._commands = Arr(BuildCommands(f))]
  ELSE s

\* `commands[name]`: an own property, else an inherited one, else undefined
Lookup(commands, key) ==
  IF key \in DOMAIN commands THEN commands[key]
  ELSE IF key \in DOMAIN ObjectPrototype THEN ObjectPrototype[key]
  ELSE Undef

HandlerOf(entry) ==
  IF entry.ext = ".sh" THEN "none"
  ELSE IF entry.kind = "proto" THEN entry.fn
  ELSE "fn"

\* getExecutable(name) for a name the lookup resolves
GetExecutableOp(s, f, key) ==
  LET s1 == Commands(s, f)
      entry == Lookup(s1._commands.a, key)
  IN [sys |-> s1,
      exe |-> NewExecutable(key, entry.ext, entry.params, HandlerOf(entry))]

NewSystem == [_commands |-> Null]

\* the name execute takes off the argument list: args.shift(), and
\* undefined used as a property key is the string 'undefined'
ShiftName(args) == IF Len(args) = 0 THEN Name("undefined") ELSE args[1].s
ShiftRest(args) == IF Len(args) = 0 THEN <<>> ELSE Tail(args)


\* `this.commands[name]` as execute tests it
Resolved(s1, name) == Lookup(s1._commands.a, name) # Undef

\* System.execute(args): [sys, exe, res, out] afterwards.  The debug
\* handler runs `list full` through Executable.execute before it returns.
RECURSIVE ExecuteOp(_, _, _, _)
ExecuteOp(s, f, args, outcome) ==
  The({
    The({
      The({
        The({
          IF Resolved(s1, ShiftName(args))
            THEN [sys |-> nested.sys, exe |-> r.exe,
                  res |-> [r.res EXCEPT !.op = "execute", !.call = args],
                  out |-> r.out \o nested.out]
          ELSE IF r.res.settled = "rejected"
            THEN [sys |-> g.sys, exe |-> r.exe,
                  res |-> [r.res EXCEPT !.op = "execute", !.call = args], out |-> r.out]
          ELSE LET l == LogErrorMsg(MsgNotFound, ("@command" :> ShiftName(args)))
               IN [sys |-> g.sys, exe |-> r.exe,
                   res |-> [r.res EXCEPT !.op = "execute", !.call = args,
                                         !.error = l.error],
                   out |-> Append(r.out, l.line)]
          : nested \in
              { IF r.res.handlerStarted /\ g.exe.name = Name("debug")
                     /\ Lookup(g.sys._commands.a, ShiftName(args)).kind = "native"
                  THEN ExecuteOp(g.sys, f, <<Str(Name("list")), Str(Name("full"))>>,
                                 "return")
                  ELSE [sys |-> g.sys, out |-> <<>>] } })
        : r \in {RunOp(g.exe, ShiftRest(args), outcome)} })
      : g \in {GetExecutableOp(s1, f, IF Resolved(s1, ShiftName(args))
                                        THEN ShiftName(args) ELSE Name("list"))} })
    : s1 \in {Commands(s, f)} })

\* the files an extension directory may hold; a module file carries the
\* `params` its handler declares
Files ==
  { [base |-> "build", ext |-> ".js", params |-> Arr(<<Arr(<<Str(<<"!", "a">>)>>)>>)],
    [base |-> "build", ext |-> ".sh", params |-> Undef],
    [base |-> "list", ext |-> ".sh", params |-> Undef],
    [base |-> "bare", ext |-> ".js", params |-> Arr(<<Str(<<"a">>)>>)],
    [base |-> "notes", ext |-> ".txt", params |-> Undef] }

RECURSIVE ListingsOfLen(_)
ListingsOfLen(n) ==
  IF n = 0 THEN {<<>>}
  ELSE {Append(l, f) : l \in ListingsOfLen(n - 1), f \in Files}

NoRepeat(l) == \A i, j \in DOMAIN l : i # j => l[i] # l[j]

Listings == {l \in UNION {ListingsOfLen(n) : n \in 0..MaxFiles} : NoRepeat(l)}

\* the names and arguments execute is called with
ExecNames == {"list", "build", "bare", "version", "debug", "constructor", "toString",
              "nope"}
RestLists == {<<>>, <<Str(<<"x">>)>>}
ExecArgs == {<<>>} \cup {<<Str(Name(n))>> \o r : n \in ExecNames, r \in RestLists}

\* the directory of the executable-only specifications
NoFs == [extension |-> FALSE, dir |-> <<>>]

\* ----------------------------------------------------- external processes
MaxCalls == 2

\* before any process is started: strict is Executable._strict
NoProc == [strict |-> FALSE, calls |-> 0, mode |-> "none", via |-> "none",
           state |-> "idle", exit |-> "none", code |-> 0, strictAtExit |-> FALSE,
           value |-> Undef, lines |-> <<>>]

\* the Error objects a script passes around, and the log before any call
ErrIds == 1..2
MaxLogCalls == 3
NoCall == [fn |-> "none", id |-> 0, wrote |-> FALSE]
NoLg == [errs |-> [i \in ErrIds |->
                    [class |-> "Error", message |-> <<Lit("failure "), Val(i)>>,
                     printed |-> FALSE, stricted |-> FALSE, passed |-> 0]],
         lines |-> <<>>, calls |-> 0, made |-> 0, last |-> NoCall]
\* a deploy script before it is called: started lists the steps begun,
\* failed the positions in it of the steps that failed
NoDep == [script |-> "none", type |-> "none", strict |-> FALSE, status |-> "idle",
          step |-> "none", started |-> <<>>, failed |-> {}, changed |-> FALSE,
          result |-> "none", finished |-> FALSE, lines |-> <<>>]
\* Executable.write before it is called: disk is the file at the path
\* ("absent", or its content "old" / "new"), before the file when write was
\* called, answered the last answer to the overwrite prompt
MaxWrites == 2
MaxAsks == 2
NoWr == [version |-> "none", strict |-> FALSE, force |-> FALSE, disk |-> "absent",
         before |-> "absent", phase |-> "idle", state |-> "none",
         error |-> NoError, consent |-> FALSE, created |-> "none",
         answered |-> "none", asks |-> 0, wrote |-> FALSE, calls |-> 0,
         lines |-> <<>>]
\* the generate handler built on Executable.for, before it is called:
\* phase[i] is how far the step of the i-th output file is, exists the
\* output files already on disk, written the files it wrote
MaxTemplates == 3
NoOg == [called |-> FALSE, n |-> 0, phase |-> <<>>, exists |-> {}, written |-> <<>>,
         resolved |-> FALSE]

\* ------------------------------------------------------- Executable.for
MaxSteps == 4

\* the results steps fulfil with and the reasons they reject or throw with
StepValues == {Str(<<"u">>), Str(<<"w">>)}
StepReasons == {Str(<<"e">>), Str(<<"f">>)}

IdleStep == [state |-> "idle", v |-> Undef]

\* before for(list) is called
NoChain == [called |-> FALSE, step |-> <<>>, order |-> <<>>,
            overall |-> [state |-> "none", v |-> Undef]]

\* a mutation of ThenReady: the next step also runs after a rejection
ThenReadySettled(c, k) == c.step[k - 1].state \in {"fulfilled", "rejected"}

\* a mutation of ThenReady: the next step runs once the one before it has
\* been invoked
ThenReadyEager(c, k) == c.step[k - 1].state # "idle"

\* `promise.then(factory.bind(null, list[index], index))`: the callback of
\* step k runs when the promise before it has fulfilled
ThenReady(c, k) == c.step[k - 1].state = "fulfilled"

\* a promise settles once
SettleOverall(c, state, v) ==
  IF c.overall.state = "pending" THEN [state |-> state, v |-> v] ELSE c.overall

\* for(list) with n steps: the first factory call is made in the loop, the
\* others are chained; an empty list gives Promise.resolve()
ForOp(c, n, first, r) ==
  IF n = 0
    THEN [c EXCEPT !.called = TRUE, !.overall = [state |-> "fulfilled", v |-> Undef]]
  ELSE IF first = "throw"
    THEN [c EXCEPT !.called = TRUE,
            !.step = [k \in 1..n |-> IF k = 1 THEN [state |-> "threw", v |-> r]
                                     ELSE IdleStep],
            !.order = <<1>>,
            !.overall = [state |-> "threw", v |-> r]]
  ELSE [c EXCEPT !.called = TRUE,
          !.step = [k \in 1..n |-> IF k = 1 THEN [state |-> "pending", v |-> Undef]
                                   ELSE IdleStep],
          !.order = <<1>>,
          !.overall = [state |-> "pending", v |-> Undef]]

\* the callback of step k: the factory returns a promise or throws
ThenOp(c, k, outcome, r) ==
  IF outcome = "throw"
    THEN [c EXCEPT !.step[k] = [state |-> "threw", v |-> r],
            !.order = Append(@, k),
            !.overall = SettleOverall(c, "rejected", r)]
    ELSE [c EXCEPT !.step[k] = [state |-> "pending", v |-> Undef],
            !.order = Append(@, k)]

\* the promise a step returned settles
SettleOp(c, k, outcome, v) ==
  IF outcome = "reject"
    THEN [c EXCEPT !.step[k] = [state |-> "rejected", v |-> v],
            !.overall = SettleOverall(c, "rejected", v)]
    ELSE [c EXCEPT !.step[k] = [state |-> "fulfilled", v |-> v],
            !.overall = IF k = Len(c.step) THEN SettleOverall(c, "fulfilled", v)
                        ELSE c.overall]

\* ------------------------------------------------------ Executable.form
MaxFields == 2
MaxRetries == 1

NoFormResult == [returned |-> FALSE, hasBag |-> FALSE, bag |-> <<>>, error |-> NoError]

NoLast == [index |-> 0, name |-> <<>>, answer |-> <<>>, accepted |-> FALSE,
           before |-> <<>>, value |-> [kind |-> "none", s |-> <<>>]]

\* before form(name) is called; fields is form.fields of the fetched JSON
NoFrm == [called |-> FALSE, fields |-> <<>>, index |-> 0, phase |-> "idle",
          required |-> FALSE, bag |-> <<>>, prompts |-> <<>>, answered |-> 0,
          retries |-> 0, errors |-> <<>>, last |-> NoLast, result |-> NoFormResult]

\* ---------------------------------------------------------------- generate
MaxOutputs == 2

\* before the generate handler runs: form is what this.form() will hand
\* over (its bag and form.files), disk is the file system
NoGen == [called |-> FALSE, bag |-> <<>>, templates |-> <<>>, phase |-> "idle",
          files |-> <<>>, next |-> 0, answer |-> <<>>, retries |-> 0,
          errors |-> <<>>, disk |-> <<>>, before |-> <<>>, result |-> "none",
          env |-> [form |-> "none", failAt |-> 0], failure |-> "none",
          collected |-> FALSE, fetched |-> 0, asked |-> 0, lines |-> <<>>]

\* -------------------------------------------------------------- actions
Run(args, outcome) ==
  /\ outcome \in OutcomesOf(exe)
  /\ LET r == RunOp(exe, args, outcome)
     IN /\ exe' = r.exe
        /\ res' = r.res
        /\ out' = r.out
  /\ UNCHANGED <<sysVars, repVars, flowVars, runVars>>

ReadParams ==
  LET g == ParamsGetter(exe)
  IN /\ exe' = [exe EXCEPT !._params = g.cache]
     /\ res' = [NoRes EXCEPT !.op = "params",
                  !.settled = IF g.threw THEN "threw" ELSE "returned",
                  !.isError = g.threw,
                  !.error = IF g.threw THEN TypeError(MsgAssignConst) ELSE NoError,
                  !.value = IF g.threw THEN Undef ELSE Arr(g.list)]
     /\ out' = <<>>
     /\ UNCHANGED <<sysVars, repVars, flowVars, runVars>>

ReadUsage ==
  LET g == ParamsGetter(exe)
  IN /\ exe' = [exe EXCEPT !._params = g.cache]
     /\ res' = [NoRes EXCEPT !.op = "usage",
                  !.settled = IF g.threw THEN "threw" ELSE "returned",
                  !.isError = g.threw,
                  !.error = IF g.threw THEN TypeError(MsgAssignConst) ELSE NoError,
                  !.value = IF g.threw THEN Undef ELSE Str(UsageOf(exe.name, g.list))]
     /\ out' = <<>>
     /\ UNCHANGED <<sysVars, repVars, flowVars, runVars>>

InitExe(Entries) ==
  /\ exe \in {NewExecutable(CmdName, ".js", Arr(d), "fn") : d \in Decls(Entries)}
             \cup {NewExecutable(CmdName, ".js", Undef, "fn"),
                   NewExecutable(CmdName, ".sh", Undef, "none")}
  /\ res = NoRes
  /\ proc = NoProc
  /\ lg = NoLg
  /\ dep = NoDep
  /\ wr = NoWr
  /\ og = NoOg
  /\ out = <<>>
  /\ sys = NewSystem
  /\ fs = NoFs
  /\ rep = NoRep
  /\ chain = NoChain
  /\ frm = NoFrm
  /\ gen = NoGen

Init == InitExe(TupleEntries)

InitDecl == InitExe(BareEntries)

Next ==
  \/ \E a \in ArgLists, o \in ExeOutcomes : Run(a, o)
  \/ ReadParams
  \/ ReadUsage

Spec == Init /\ [][Next]_vars

SpecDecl == InitDecl /\ [][Next]_vars

\* ------------------------------------------------------- System actions
Execute(args, outcome) ==
  /\ \E s1 \in {Commands(sys, fs)} :
       \E g \in {GetExecutableOp(s1, fs, IF Resolved(s1, ShiftName(args))
                                          THEN ShiftName(args) ELSE Name("list"))} :
         outcome \in OutcomesOf(g.exe)
  /\ \E r \in {ExecuteOp(sys, fs, args, outcome)} :
       /\ sys' = r.sys
       /\ exe' = r.exe
       /\ res' = r.res
       /\ out' = r.out
  /\ UNCHANGED <<fs, repVars, flowVars, runVars>>

\* getExecutable(name), as the list handler calls it for a registered name
GetExecutable(key) ==
  /\ key \in DOMAIN Commands(sys, fs)._commands.a
  /\ \E g \in {GetExecutableOp(sys, fs, key)} :
       /\ sys' = g.sys
       /\ exe' = g.exe
       /\ res' = [NoRes EXCEPT !.op = "getExecutable", !.call = <<Str(key)>>]
       /\ out' = <<>>
  /\ UNCHANGED <<fs, repVars, flowVars, runVars>>

\* the environment: a file appears in, or disappears from, the directory
AddFile(f) ==
  /\ fs.extension
  /\ Len(fs.dir) < MaxFiles
  /\ \A k \in DOMAIN fs.dir : fs.dir[k] # f
  /\ \E pos \in 0..Len(fs.dir) :
       fs' = [fs EXCEPT !.dir = SubSeq(fs.dir, 1, pos) \o <<f>>
                                   \o SubSeq(fs.dir, pos + 1, Len(fs.dir))]
  /\ UNCHANGED <<sys, exeVars, repVars, flowVars, runVars>>

RemoveFile(k) ==
  /\ k \in DOMAIN fs.dir
  /\ fs' = [fs EXCEPT !.dir = SubSeq(fs.dir, 1, k - 1) \o SubSeq(fs.dir, k + 1, Len(fs.dir))]
  /\ UNCHANGED <<sys, exeVars, repVars, flowVars, runVars>>

InitSys ==
  /\ sys = NewSystem
  /\ fs \in {[extension |-> TRUE, dir |-> l] : l \in Listings} \cup {NoFs}
  /\ exe = NewExecutable(Name("list"), ".js", Undef, "fn")
  /\ res = NoRes
  /\ proc = NoProc
  /\ lg = NoLg
  /\ dep = NoDep
  /\ wr = NoWr
  /\ og = NoOg
  /\ out = <<>>
  /\ rep = NoRep
  /\ chain = NoChain
  /\ frm = NoFrm
  /\ gen = NoGen

NextSys ==
  \/ \E a \in ExecArgs, o \in JsOutcomes \cup ShOutcomes \cup ObjectOutcomes
                            \cup StringOutcomes : Execute(a, o)
  \/ \E n \in ExecNames : GetExecutable(Name(n))
  \/ \E f \in Files : AddFile(f)
  \/ \E k \in 1..MaxFiles : RemoveFile(k)

SpecSys == InitSys /\ [][NextSys]_vars

\* ------------------------------------------------------------ the registry
Registry == sys._commands.a
RegistryOf(s) == s._commands.a

Own(commands, key) == IF key \in DOMAIN commands THEN commands[key] ELSE Undef

\* the positions of the listing that hold a command file of this base name
FilesNamed(f, w) ==
  {k \in DOMAIN f.dir : f.dir[k].base = w /\ f.dir[k].ext \in {".js", ".sh"}}

BuiltinsNamed(w) == {k \in DOMAIN Builtins : Builtins[k].fn = w}

\* the entry the last source to register the name leaves
LastRegistered(f, w) ==
  IF f.extension /\ FilesNamed(f, w) # {}
    THEN LET k == CHOOSE i \in FilesNamed(f, w) : \A j \in FilesNamed(f, w) : j <= i
         IN [kind |-> "file", fn |-> w, ext |-> f.dir[k].ext, params |-> f.dir[k].params]
  ELSE IF BuiltinsNamed(w) # {}
    THEN LET k == CHOOSE i \in BuiltinsNamed(w) : TRUE
         IN [kind |-> "native", fn |-> w, ext |-> ".js", params |-> Builtins[k].params]
  ELSE Undef

KnownWords == {Builtins[k].fn : k \in DOMAIN Builtins} \cup {f.base : f \in Files}
                 \cup ExecNames \cup {"undefined"}

LastWins ==
  /\ (sys._commands = Null /\ sys'._commands # Null) =>
        \A w \in KnownWords :
           Own(RegistryOf(sys'), Name(w)) = LastRegistered(fs, w)
  /\ (res'.op = "execute" /\ exe'.name \in DOMAIN RegistryOf(sys')) =>
        LET entry == RegistryOf(sys')[exe'.name]
        IN /\ exe'.extname = entry.ext
           /\ exe'.factoryParams = entry.params
           /\ (res'.initStarted /\ entry.ext = ".sh") => res'.scriptStarted
           /\ (res'.initStarted /\ entry.ext = ".js") => res'.handlerStarted

\* C7: of two sources that register the same name the later one wins:
\* built-ins are registered first and the extension directory last, so
\* the registry built holds, and execute resolves and runs, the last
\* command file of that name, replacing a built-in one.
C7_LastRegistrationWins == [][LastWins]_vars

C7_Witness ==
  /\ res.op = "execute"
  /\ res.call = <<Str(Name("list"))>>
  /\ exe.name = Name("list")
  /\ exe.extname = ".sh"
  /\ res.scriptStarted
  /\ BuiltinsNamed("list") # {}

BuiltOnce ==
  /\ sys._commands # Null => sys'._commands = sys._commands
  /\ res'.op \in {"execute", "getExecutable"} => sys'._commands # Null

\* C8: the registry is built on the first access to `commands`, and once
\* built no execute, getExecutable or list (nor a command run from a
\* command) adds, removes or replaces an entry.
C8_RegistryBuiltOnce == [][BuiltOnce]_vars

C8_Witness ==
  /\ sys._commands # Null
  /\ res.op = "execute"
  /\ exe.name = Name("debug")
  /\ res.handlerStarted
  /\ Registry # BuildCommands(fs)

\* C9: for every name no source registered (the absent name of an empty
\* argument list and names of inherited object properties included),
\* execute runs `list` with the remaining arguments and returns a result
\* whose error is the 'command not found' error; no other handler runs.
C9_UnknownCommandListed ==
  (res.op = "execute" /\ ShiftName(res.call) \notin DOMAIN Registry) =>
      /\ exe.name = Name("list")
      /\ exe._args = Arr(ShiftRest(res.call))
      /\ res.settled = "fulfilled" => res.error = LoshError(MsgNotFound, TRUE)



\* ------------------------------------------------ parameters and binding
\* the parameter list the executable bound against, and the raw arguments
Params == exe._params.a
RawArgs == exe._args.a

Ran == res.op = "run"

\* position i (zero-based) holds no argument, or the empty string
ArgAbsent(i) == ~Truthy(At(RawArgs, i))

\* the required parameters without fallback whose argument is absent
Unbound == {i \in 0..(Len(Params) - 1) :
              /\ Params[i + 1].required
              /\ Params[i + 1].fallback = Null
              /\ ArgAbsent(i)}

FirstUnbound == CHOOSE i \in Unbound : \A j \in Unbound : i <= j

Names(text, name) == \E k \in DOMAIN text : text[k] = Val(name)

NothingStarted == ~res.initStarted /\ ~res.handlerStarted /\ ~res.scriptStarted

Defaulted == {i \in 0..(Len(Params) - 1) :
                /\ Params[i + 1].required
                /\ Params[i + 1].fallback # Null
                /\ ArgAbsent(i)}

\* C2 as stated: a required parameter that declares a fallback and gets no
\* argument is reported as missing and the command does not run.
C2_RequiredIgnoresFallback ==
  (Ran /\ Defaulted # {}) =>
      /\ res.error = LoshError(MsgRequired, TRUE)
      /\ NothingStarted

\* C2 as amended: a required parameter that declares a fallback is bound to
\* that fallback when its argument is missing or empty; no error is
\* reported for it, and the command runs unless a required parameter
\* without fallback is left unbound.
C2_RequiredUsesFallback ==
  Ran => \A i \in Defaulted :
           /\ (\A j \in Unbound : i < j) =>
                exe.args.named[Params[i + 1].name] = Params[i + 1].fallback
           /\ \A k \in DOMAIN out : ~Names(out[k].text, Params[i + 1].name)
           /\ (Unbound = {}) => (res.initStarted /\ (res.handlerStarted \/ res.scriptStarted))

C2_Witness ==
  /\ Ran
  /\ Defaulted # {}
  /\ Unbound = {}
  /\ res.handlerStarted
  /\ RawArgs = <<>>

AllOptional == \A k \in DOMAIN Params : ~Params[k].required

\* C3 as stated: with only optional parameters and fewer arguments than
\* parameters, every position below args.length is bound to its raw
\* argument and every missing position to the parameter's fallback or null.
C3_PositionsBoundToRawArgs ==
  (Ran /\ AllOptional /\ Len(RawArgs) < Len(Params)) =>
      \A i \in 0..(Len(Params) - 1) :
         exe.args.named[Params[i + 1].name] =
            IF i < Len(RawArgs) THEN RawArgs[i + 1] ELSE Params[i + 1].fallback

\* C3 as amended: with only optional parameters and fewer arguments than
\* parameters, every position holding a non-empty argument is bound to it,
\* and every position that is missing or holds the empty string is bound
\* to the parameter's own fallback, or to null when it declares none.
C3_FallbackFillsMissing ==
  (Ran /\ AllOptional /\ Len(RawArgs) < Len(Params)) =>
      /\ DOMAIN exe.args.named = {Params[k].name : k \in DOMAIN Params}
      /\ \A i \in 0..(Len(Params) - 1) :
            exe.args.named[Params[i + 1].name] =
               IF ArgAbsent(i) THEN Params[i + 1].fallback ELSE RawArgs[i + 1]
      /\ res.initStarted

C3_Witness ==
  /\ Ran
  /\ Len(Params) = 1
  /\ ~Params[1].required
  /\ Params[1].options # Null
  /\ RawArgs = <<>>
  /\ exe.args.named[Params[1].name] = Fallback

\* C4: whenever binding completes with more raw arguments than declared
\* parameters (none declared included), the overflow `_` holds exactly the
\* raw arguments from position n on, in arrival order.
C4_OverflowPreserved ==
  (Ran /\ Unbound = {} /\ Len(RawArgs) > Len(Params)) =>
      exe.args.ov = SubSeq(RawArgs, Len(Params) + 1, Len(RawArgs))

\* the declared list with every bare name wrapped as the tuple [name]
Wrapped(decl) ==
  [k \in DOMAIN decl |-> IF IsArray(decl[k]) THEN decl[k] ELSE Arr(<<decl[k]>>)]

\* the fields the tuple [name] parses to: optional, nothing else declared
PlainSpec(name) ==
  [name |-> name, required |-> FALSE, description |-> Null, options |-> Null,
   fallback |-> Null, type |-> "argument", usage |-> <<"[">> \o name \o <<"]">>]

\* C5: a bare name is parsed like the tuple [name], and reading the
\* parameters or the usage of, or running, a command that declares one
\* completes without an error.
C5_BareNameAccepted ==
  /\ res.op \in {"params", "usage"} => res.settled = "returned"
  /\ res.op = "run" => ~(res.settled = "rejected" /\ res.error.class = "TypeError")
  /\ (exe._params # Undef /\ exe.factoryParams # Undef) =>
        /\ Len(Params) = Len(exe.factoryParams.a)
        /\ \A k \in DOMAIN Params :
              ~IsArray(exe.factoryParams.a[k]) =>
                 Params[k] = PlainSpec(exe.factoryParams.a[k].s)

\* the usage string the fields of one ParameterSpec determine
ExpectedUsage(p) ==
  LET base == IF p.options # Null THEN Join(p.options.a, <<"|">>) ELSE p.name
      suffix == IF p.fallback # Null THEN <<"=">> \o p.fallback.s ELSE <<>>
  IN IF p.required THEN <<"<">> \o base \o suffix \o <<">">>
     ELSE <<"[">> \o base \o suffix \o <<"]">>

DeclaredList == IF exe.factoryParams = Undef THEN <<>> ELSE exe.factoryParams.a

UsageHolds ==
  /\ exe._params # Undef =>
       /\ Len(Params) = Len(DeclaredList)
       /\ \A k \in DOMAIN Params :
            /\ Params[k].usage = ExpectedUsage(Params[k])
            /\ Params[k].name = NameOf(k)
            /\ Params[k].required = StartsWith(DeclaredList[k].a[1].s, "!")
  /\ res.op = "usage" =>
       /\ res.settled = "returned"
       /\ res.value.s = Join(<<Str(<<"l","o","s","h">>), Str(exe.name)>>
                               \o [k \in DOMAIN Params |-> Str(ExpectedUsage(Params[k]))],
                             <<" ">>)

\* a read of params or usage changes nothing but the cache it fills, and
\* nothing at all once the cache is filled; a repeated read returns the
\* value of the read before it
ReadIsPure ==
  (res'.op \in {"params", "usage"}) =>
      /\ exe' = [exe EXCEPT !._params = exe'._params]
      /\ exe._params # Undef => exe' = exe
      /\ res.op = res'.op => res'.value = res.value
      /\ out' = <<>>

Replace ==
  /\ ~rep.called
  /\ rep' = [rep EXCEPT !.called = TRUE,
               !.result = ReplaceOp(rep.content, rep.bag, Paths, rep.strict)]
  /\ UNCHANGED <<exeVars, sysVars, flowVars, runVars>>

InitReplace ==
  /\ rep \in {[NoRep EXCEPT !.content = c, !.bag = b, !.strict = st] :
                 c \in Templates, b \in Bags, st \in BOOLEAN}
  /\ exe = NewExecutable(Name("test"), ".js", Undef, "fn")
  /\ res = NoRes
  /\ proc = NoProc
  /\ lg = NoLg
  /\ dep = NoDep
  /\ wr = NoWr
  /\ og = NoOg
  /\ out = <<>>
  /\ sys = NewSystem
  /\ fs = NoFs
  /\ chain = NoChain
  /\ frm = NoFrm
  /\ gen = NoGen

NextReplace == Replace

SpecReplace == InitReplace /\ [][NextReplace]_vars

\* the template holds a required placeholder {{<pre>!key<post>}} of a key
\* that the bag leaves undefined or null
HasAbsentRequired(c, bag) ==
  \E p \in 1..Len(c), key \in {<<"a">>, <<"b">>} :
     /\ BagGet(bag, key) \in {Undef, Null}
     /\ \E q \in p..Len(c) :
          /\ q - p + 1 = 5 + Len(key)
          /\ SubSeq(c, p, q) = <<"{", "{", "!">> \o key \o <<"}", "}">>

\* C10: a template that holds a required placeholder {{!key}} whose key is
\* undefined or null in the bag makes replace throw ReplaceLoshError in
\* strict mode and return null in lenient mode, whatever else it holds.
C10_RequiredAbsent ==
  (rep.called /\ HasAbsentRequired(rep.content, rep.bag)) =>
      rep.result.kind = IF rep.strict THEN "throw" ELSE "null"

C10_WitnessStrict ==
  /\ rep.called
  /\ rep.strict
  /\ HasAbsentRequired(rep.content, rep.bag)
  /\ rep.content = <<"@", "r", "{", "{", "a", "}", "}", "{", "{", "!", "a", "}", "}">>
  /\ rep.bag = (<<"a">> :> Null)
  /\ rep.result.kind = "throw"

\* ------------------------------------------------- replace: plain forms
PlainA == <<"{", "{", "a", "}", "}">>
DecoB == <<"{", "{", "|", "b", " ", "}", "}">>

IsAt(c, p, seg) == p + Len(seg) - 1 <= Len(c) /\ SubSeq(c, p, p + Len(seg) - 1) = seg

Occurs(c, seg) == \E p \in 1..Len(c) : IsAt(c, p, seg)

\* the template is put together from the placeholder seg and the letter x
RECURSIVE MadeOf(_, _, _)
MadeOf(c, p, seg) ==
  \/ p > Len(c)
  \/ c[p] = "x" /\ MadeOf(c, p + 1, seg)
  \/ IsAt(c, p, seg) /\ MadeOf(c, p + Len(seg), seg)

\* the template with every occurrence of seg replaced by the text t
RECURSIVE Substituted(_, _, _, _)
Substituted(c, p, seg, t) ==
  IF p > Len(c) THEN <<>>
  ELSE IF IsAt(c, p, seg) THEN t \o Substituted(c, p + Len(seg), seg, t)
  ELSE <<c[p]>> \o Substituted(c, p + 1, seg, t)

Has(c, ch) == \E p \in 1..Len(c) : c[p] = ch

\* C11: a template whose only placeholders are plain {{key}} forms, with
\* a string of any content in the bag for each referenced key, comes back
\* with each placeholder replaced by exactly that value and with no
\* delimiter left.
C11_PlainVerbatim ==
  (/\ rep.called
   /\ MadeOf(rep.content, 1, PlainA) /\ Occurs(rep.content, PlainA)
   /\ BagGet(rep.bag, <<"a">>).t = "str") =>
      /\ rep.result.kind = "string"
      /\ rep.result.s = Substituted(rep.content, 1, PlainA, BagGet(rep.bag, <<"a">>).s)
      /\ ~Has(rep.result.s, "{") /\ ~Has(rep.result.s, "}")

\* the template is made of the decorated placeholder {{|b }} and x only
DecoratedOnly == MadeOf(rep.content, 1, DecoB) /\ Occurs(rep.content, DecoB)

\* C12 as stated: a key that is in the bag with value v gives <pre>v<post>,
\* a missing key gives the empty string, and a string comes back in both
\* modes.
C12_DecorationsWithValue ==
  (rep.called /\ DecoratedOnly) =>
      /\ rep.result.kind = "string"
      /\ rep.result.s =
           Substituted(rep.content, 1, DecoB,
              IF BagGet(rep.bag, <<"b">>).t = "str"
                THEN <<"|">> \o BagGet(rep.bag, <<"b">>).s \o <<" ">>
                ELSE <<>>)

\* C12: a plain placeholder {{<pre>key<post>}} is replaced by <pre>, v and
\* <post> when the bag holds a non-empty string v for the key; when the
\* key is missing, null or the empty string the whole placeholder,
\* decorations included, is replaced by the empty string; a string comes
\* back in strict and in lenient mode.
C12_DecorationsWithNonEmptyValue ==
  (rep.called /\ DecoratedOnly) =>
      /\ rep.result.kind = "string"
      /\ rep.result.s =
           Substituted(rep.content, 1, DecoB,
              IF Truthy(BagGet(rep.bag, <<"b">>))
                THEN <<"|">> \o BagGet(rep.bag, <<"b">>).s \o <<" ">>
                ELSE <<>>)

C12_Witness ==
  /\ rep.called /\ rep.strict
  /\ rep.content = <<"x">> \o DecoB \o DecoB
  /\ rep.bag = (<<"b">> :> Str(<<"w">>))
  /\ rep.result = [kind |-> "string", s |-> <<"x", "|", "w", " ", "|", "w", " ">>]

C12_WitnessMissing ==
  /\ rep.called /\ rep.strict
  /\ rep.content = DecoB \o <<"x">>
  /\ rep.bag = (<<"a">> :> Str(<<"v">>))
  /\ rep.result = [kind |-> "string", s |-> <<"x">>]

\* -------------------------------------------------- replace: path macros
\* the name of the token at p: the longest run of lowercase letters after
\* `@` or `@!`
TokenBang(c, p) == p + 1 <= Len(c) /\ c[p + 1] = "!"
TokenFrom(c, p) == IF TokenBang(c, p) THEN p + 2 ELSE p + 1
TokenEnd(c, p) ==
  CHOOSE e \in TokenFrom(c, p)..(Len(c) + 1) :
     /\ \A j \in TokenFrom(c, p)..(e - 1) : c[j] \in Lower
     /\ (e <= Len(c) => c[e] \notin Lower)
TokenName(c, p) == SubSeq(c, TokenFrom(c, p), TokenEnd(c, p) - 1)
IsToken(c, p) == c[p] = "@" /\ TokenName(c, p) # <<>>

\* what the path pass is to make of the text from p: [text, absent]
RECURSIVE PathExpected(_, _)
PathExpected(c, p) ==
  IF p > Len(c) THEN [text |-> <<>>, absent |-> FALSE]
  ELSE IF IsToken(c, p)
    THEN LET rest == PathExpected(c, TokenEnd(c, p))
             name == TokenName(c, p)
         IN IF name \in DOMAIN Paths
              THEN [text |-> Paths[name].s \o rest.text, absent |-> rest.absent]
            ELSE IF TokenBang(c, p)
              THEN [text |-> rest.text, absent |-> TRUE]
            ELSE [text |-> SubSeq(c, p, TokenEnd(c, p) - 1) \o rest.text,
                  absent |-> rest.absent]
  ELSE LET rest == PathExpected(c, p + 1)
       IN [text |-> <<c[p]>> \o rest.text, absent |-> rest.absent]

\* C13: in the path pass `@name` becomes pathTable[name] when the entry
\* exists and stays the literal token when it does not; `@!name` becomes
\* pathTable[name] or makes the call absent (null in lenient mode, the
\* error in strict mode); the name is the longest run of lowercase
\* letters, so `@rx` is never rewritten using the entry r.
C13_PathTokens ==
  (rep.called /\ ~Has(rep.content, "{") /\ ~Has(rep.content, "}")) =>
      LET e == PathExpected(rep.content, 1)
      IN IF e.absent
           THEN rep.result.kind = IF rep.strict THEN "throw" ELSE "null"
           ELSE rep.result = [kind |-> "string", s |-> e.text]

C13_Witness ==
  /\ rep.called
  /\ rep.content = <<"@", "r", "x", "@", "!", "r">>
  /\ rep.result = [kind |-> "string", s |-> <<"@", "r", "x", "/", "p">>]

C13_WitnessAbsent ==
  /\ rep.called /\ ~rep.strict
  /\ rep.content = <<"@", "r", "@", "!", "q">>
  /\ rep.result.kind = "null"

\* ------------------------------------------------- Executable.for: actions
For(n, first, r) ==
  /\ ~chain.called
  /\ chain' = ForOp(chain, n, first, r)
  /\ UNCHANGED <<exeVars, sysVars, repVars, frm, gen, runVars>>

Then(k, outcome, r) ==
  /\ chain.called
  /\ k \in 2..Len(chain.step)
  /\ chain.step[k].state = "idle"
  /\ ThenReady(chain, k)
  /\ chain' = ThenOp(chain, k, outcome, r)
  /\ UNCHANGED <<exeVars, sysVars, repVars, frm, gen, runVars>>

Settle(k, outcome, v) ==
  /\ k \in DOMAIN chain.step
  /\ chain.step[k].state = "pending"
  /\ chain' = SettleOp(chain, k, outcome, v)
  /\ UNCHANGED <<exeVars, sysVars, repVars, frm, gen, runVars>>

InitFor ==
  /\ chain = NoChain
  /\ frm = NoFrm
  /\ gen = NoGen
  /\ rep = NoRep
  /\ exe = NewExecutable(Name("test"), ".js", Undef, "fn")
  /\ res = NoRes
  /\ proc = NoProc
  /\ lg = NoLg
  /\ dep = NoDep
  /\ wr = NoWr
  /\ og = NoOg
  /\ out = <<>>
  /\ sys = NewSystem
  /\ fs = NoFs

NextFor ==
  \/ \E n \in 0..MaxSteps, first \in {"promise", "throw"}, r \in StepReasons :
       For(n, first, r)
  \/ \E k \in 2..MaxSteps, outcome \in {"promise", "throw"}, r \in StepReasons :
       Then(k, outcome, r)
  \/ \E k \in 1..MaxSteps, v \in StepValues : Settle(k, "fulfil", v)
  \/ \E k \in 1..MaxSteps, v \in StepReasons : Settle(k, "reject", v)

SpecFor == InitFor /\ [][NextFor]_vars

StepState(k) == chain.step[k].state

\* C14: when some step k returns a promise that rejects, no step after k
\* is ever invoked and the promise for returned rejects with step k's
\* reason.
C14_FailFast ==
  \A k \in DOMAIN chain.step :
     StepState(k) = "rejected" =>
        /\ \A j \in DOMAIN chain.step : j > k => StepState(j) = "idle"
        /\ chain.order = [i \in 1..k |-> i]
        /\ chain.overall = [state |-> "rejected", v |-> chain.step[k].v]

C14_Witness ==
  /\ Len(chain.step) = 3
  /\ StepState(1) = "fulfilled"
  /\ StepState(2) = "rejected"
  /\ StepState(3) = "idle"
  /\ chain.overall = [state |-> "rejected", v |-> chain.step[2].v]

\* C15: steps are invoked in declaration order, step i+1 only after the
\* promise of step i has fulfilled; the promises of two steps are never
\* pending together; when every step fulfils, the overall promise fulfils
\* with the last step's result.
C15_OneAtATime ==
  /\ chain.order = [i \in 1..Len(chain.order) |-> i]
  /\ \A k \in DOMAIN chain.step :
        (k > 1 /\ StepState(k) # "idle") => StepState(k - 1) = "fulfilled"
  /\ Cardinality({k \in DOMAIN chain.step : StepState(k) = "pending"}) <= 1
  /\ (chain.step # <<>> /\ \A k \in DOMAIN chain.step : StepState(k) = "fulfilled") =>
        chain.overall = [state |-> "fulfilled", v |-> chain.step[Len(chain.step)].v]

C15_Witness ==
  /\ Len(chain.step) = 3
  /\ \A k \in DOMAIN chain.step : StepState(k) = "fulfilled"
  /\ chain.step[1].v # chain.step[3].v
  /\ chain.order = <<1, 2, 3>>
  /\ chain.overall = [state |-> "fulfilled", v |-> chain.step[3].v]

\* -------------------------------------------------------- Executable.form
\* the declared fields [name, prompt, transformer?]: the name may carry the
\* `?` marker; the prompt text is left out
FieldNames == {<<"a">>, <<"?", "a">>, <<"b">>, <<"?", "b">>}
Transformers == {Undef,
                 Str(<<"{", "{", "a", "}", "}", "x">>),
                 Str(<<"{", "{", "!", "b", "}", "}">>)}
Fields == {[name |-> n, transformer |-> t] : n \in FieldNames, t \in Transformers}

RECURSIVE FieldListsOfLen(_)
FieldListsOfLen(n) ==
  IF n = 0 THEN {<<>>}
  ELSE {Append(l, f) : l \in FieldListsOfLen(n - 1), f \in Fields}

FieldLists == UNION {FieldListsOfLen(n) : n \in 0..MaxFields}

\* the lines a user may type
Answers == {<<>>, <<"v">>, <<"@", "r">>}

ReadFailure == [class |-> "Error", message |-> <<Lit(<<"r", "e", "a", "d">>)>>,
                printed |-> FALSE]

\* a mutation of ReadlineCheck: every answer passes
ReadlineCheckLenient(required, answer) == "true"

\* a mutation of ReadlineCheck: no answer passes
ReadlineCheckNever(required, answer) == "Require input!"

\* the condition readlineWhile builds from `required`: the failure text
\* for an empty answer of a required field, true otherwise
ReadlineCheck(required, answer) ==
  IF required /\ Len(answer) = 0 THEN "Require input!" ELSE "true"

\* a mutation of StoreValue: a value that is not truthy is stored as ''
StoreValueEmpty(bag, name, value) ==
  IF value.kind = "string" /\ value.s # <<>>
    THEN (name :> Str(value.s)) @@ bag
    ELSE (name :> Str(<<>>)) @@ bag

\* `if (value) bag[name] = value; else delete bag[name];`
StoreValue(bag, name, value) ==
  IF value.kind = "string" /\ value.s # <<>>
    THEN (name :> Str(value.s)) @@ bag
    ELSE [k \in DOMAIN bag \ {name} |-> bag[k]]

\* a mutation of FormErrorResult: the result carries the error only
FormErrorResultBare(bag, error) ==
  [returned |-> TRUE, hasBag |-> FALSE, bag |-> <<>>, error |-> error]

\* `return {name, form, bag, error: input.error}`
FormErrorResult(bag, error) ==
  [returned |-> TRUE, hasBag |-> TRUE, bag |-> bag, error |-> error]

\* the top of the loop body for field idx: `required` is taken from the
\* declared name, the marker is cut off in place and the prompt is issued;
\* after the last field form returns {name, form, bag}
EnterField(f, idx) ==
  IF idx > Len(f.fields)
    THEN [f EXCEPT !.index = idx, !.phase = "done",
            !.result = [returned |-> TRUE, hasBag |-> TRUE, bag |-> f.bag,
                        error |-> NoError]]
    ELSE LET required == ~StartsWith(f.fields[idx].name, "?")
         IN [f EXCEPT !.index = idx, !.phase = "prompt", !.required = required,
               !.fields[idx].name = IF required THEN @ ELSE Tail(@),
               !.prompts = Append(@, idx)]

\* the rest of the loop body once readlineWhile has returned the answer
StoreField(f, answer) ==
  The({
    The({
      The({ [f EXCEPT !.bag = StoreValue(bag1, f.fields[f.index].name, value),
               !.last = [index |-> f.index, name |-> f.fields[f.index].name,
                         answer |-> answer, accepted |-> TRUE, before |-> f.bag,
                         value |-> value]]
            : value \in {ReplaceOp(transformer.s, bag1, Paths, FALSE)} })
      : bag1 \in {(f.fields[f.index].name :> Str(answer)) @@ f.bag} })
    : transformer \in {Or(f.fields[f.index].transformer,
                          Str(<<"{", "{">> \o f.fields[f.index].name \o <<"}", "}">>))} })

\* readline resolves with an answer inside readlineWhile
AnswerOp(f, answer) ==
  IF ReadlineCheck(f.required, answer) # "true"
    THEN [f EXCEPT !.answered = @ + 1, !.retries = @ + 1,
            !.errors = Append(@, ReadlineCheck(f.required, answer)),
            !.prompts = Append(@, f.index),
            !.last = [NoLast EXCEPT !.index = f.index, !.answer = answer,
                        !.name = f.fields[f.index].name, !.before = f.bag]]
    ELSE The({EnterField(g, f.index + 1) :
                g \in {[StoreField(f, answer) EXCEPT !.answered = @ + 1]}})

\* ----------------------------------------------- Executable.form: actions
Form(outcome) ==
  /\ ~frm.called
  /\ frm' = IF outcome = "rejected"
              THEN [frm EXCEPT !.called = TRUE, !.phase = "rejected"]
              ELSE EnterField([frm EXCEPT !.called = TRUE], 1)
  /\ UNCHANGED <<exeVars, sysVars, repVars, chain, gen, runVars>>

Answer(answer) ==
  /\ frm.phase = "prompt"
  /\ ReadlineCheck(frm.required, answer) # "true" => frm.retries < MaxRetries
  /\ frm' = AnswerOp(frm, answer)
  /\ UNCHANGED <<exeVars, sysVars, repVars, chain, gen, runVars>>

\* readline resolves with an error: `if (input.error) return ...`
ReadError ==
  /\ frm.phase = "prompt"
  /\ frm' = [frm EXCEPT !.phase = "failed",
               !.result = FormErrorResult(frm.bag, ReadFailure)]
  /\ UNCHANGED <<exeVars, sysVars, repVars, chain, gen, runVars>>

\* readline throws or rejects: the await throws out of form
ReadRejects ==
  /\ frm.phase = "prompt"
  /\ frm' = [frm EXCEPT !.phase = "rejected"]
  /\ UNCHANGED <<exeVars, sysVars, repVars, chain, gen, runVars>>

InitForm ==
  /\ frm \in {[NoFrm EXCEPT !.fields = l] : l \in FieldLists}
  /\ chain = NoChain
  /\ gen = NoGen
  /\ rep = NoRep
  /\ exe = NewExecutable(Name("generate"), ".js", Undef, "fn")
  /\ res = NoRes
  /\ proc = NoProc
  /\ lg = NoLg
  /\ dep = NoDep
  /\ wr = NoWr
  /\ og = NoOg
  /\ out = <<>>
  /\ sys = NewSystem
  /\ fs = NoFs

NextForm ==
  \/ \E o \in {"fetched", "rejected"} : Form(o)
  \/ \E a \in Answers : Answer(a)
  \/ ReadError
  \/ ReadRejects

SpecForm == InitForm /\ [][NextForm]_vars

\* --------------------------------------------------- form: stored values
\* the field that the last answer was stored for, as the form declares it
LastField == frm.fields[frm.last.index]

\* C16: the value stored under a field's name is the field's transformer
\* rendered in lenient mode against the bag of the earlier fields and the
\* raw answer; with no transformer the stored value is the raw answer.
C16_StoredIsRendered ==
  (frm.last.accepted /\ frm.last.name \in DOMAIN frm.bag) =>
      frm.bag[frm.last.name] =
          IF LastField.transformer = Undef
            THEN Str(frm.last.answer)
            ELSE Str(ReplaceOp(LastField.transformer.s,
                               (frm.last.name :> Str(frm.last.answer)) @@ frm.last.before,
                               Paths, FALSE).s)

\* an empty answer arrives for the required field that is prompted
EmptyAnswerToRequired ==
  /\ frm.phase = "prompt"
  /\ frm.required
  /\ frm'.answered = frm.answered + 1
  /\ frm'.last.answer = <<>>

RequiredRetry ==
  EmptyAnswerToRequired =>
      /\ frm'.phase = "prompt"
      /\ frm'.index = frm.index
      /\ frm'.prompts = Append(frm.prompts, frm.index)
      /\ frm'.errors = Append(frm.errors, "Require input!")
      /\ frm'.bag = frm.bag
      /\ ~frm'.last.accepted

\* a field is left (the next prompt is issued, or form returns) only by
\* an answer; for a required field that answer is not empty
RequiredLeftByAnswer ==
  (frm.phase = "prompt" /\ frm.required /\ frm'.index > frm.index) =>
      /\ frm'.last.accepted
      /\ frm'.last.index = frm.index
      /\ frm'.last.answer # <<>>

\* C17: for a required field (a name without the `?` marker) every empty
\* answer is reported as an error and the same prompt is issued again; the
\* value is not stored and the next field is not prompted until a
\* non-empty answer has been given.
C17_RequiredReprompts == [][RequiredRetry /\ RequiredLeftByAnswer]_vars

C17_Witness ==
  /\ frm.phase = "prompt"
  /\ frm.required
  /\ frm.index = 2
  /\ frm.prompts = <<1, 2, 2>>
  /\ frm.errors = <<"Require input!">>
  /\ frm.last.answer = <<>> /\ ~frm.last.accepted
  /\ DOMAIN frm.bag = {<<"a">>}

\* C18: after each field the bag holds no empty and no null value: when
\* the transformer renders to the absent result (or to nothing) the key is
\* removed, and a required placeholder {{!field}} that references it
\* later is treated as missing.
C18_NoEmptyValues ==
  /\ \A k \in DOMAIN frm.bag : frm.bag[k].t = "str" /\ frm.bag[k].s # <<>>
  /\ (frm.last.accepted /\ (frm.last.value.kind = "null" \/ frm.last.value.s = <<>>)) =>
        /\ frm.last.name \notin DOMAIN frm.bag
        /\ ReplaceOp(<<"{", "{", "!">> \o frm.last.name \o <<"}", "}">>,
                     frm.bag, Paths, FALSE).kind = "null"

C18_Witness ==
  /\ frm.last.accepted
  /\ frm.last.index = 2
  /\ frm.last.name = <<"a">>
  /\ frm.last.answer = <<"v">>
  /\ frm.last.value.kind = "null"
  /\ <<"a">> \in DOMAIN frm.last.before
  /\ frm.bag = <<>>

ReadFailureResult ==
  /\ frm.phase = "failed" =>
        /\ frm.result = [returned |-> TRUE, hasBag |-> TRUE, bag |-> frm.bag,
                         error |-> ReadFailure]
        /\ frm.prompts[Len(frm.prompts)] = frm.index
        /\ \A k \in DOMAIN frm.prompts : frm.prompts[k] <= frm.index
  /\ frm.phase = "rejected" => frm.result = NoFormResult

CollectionStopped == frm.phase \in {"failed", "rejected"} => frm' = frm

OutputEntries ==
  { [path |-> <<"x">>, text |-> <<"{", "{", "a", "}", "}">>],
    [path |-> <<"{", "{", "!", "a", "}", "}">>, text |-> <<"x">>],
    [path |-> <<"{", "{", "a", "}", "}", "x">>, text |-> <<"{", "{", "!", "a", "}", "}">>],
    [path |-> <<"@", "!", "q">>, text |-> <<"x">>] }

RECURSIVE OutputsOfLen(_)
OutputsOfLen(n) ==
  IF n = 0 THEN {<<>>}
  ELSE {Append(l, f) : l \in OutputsOfLen(n - 1), f \in OutputEntries}

Outputs == UNION {OutputsOfLen(n) : n \in 0..MaxOutputs}

GenBags == {<<>>, (<<"a">> :> Str(<<"v">>))}

\* the file system before generate: empty, or holding the file x
Disks == {<<>>, (<<"x">> :> Str(<<"o">>))}

\* Path.normalize on a path without separators and dots: '' becomes '.'
Normalize(path) == IF path = <<>> THEN <<".">> ELSE path

\* `files[key] = value` on an object: a key already present keeps its place
SetFile(files, key, value) ==
  IF \E k \in DOMAIN files : files[k].path = key
    THEN [k \in DOMAIN files |->
            IF files[k].path = key THEN [path |-> key, content |-> value] ELSE files[k]]
    ELSE Append(files, [path |-> key, content |-> value])

MsgCannotGenerate ==
  <<Lit("File "), Ph("!path"), Lit(" can not be generated because: "), Ph("message")>>
MsgReplace == <<Lit("One or more required placeholders are not set in bag.")>>

\* a mutation of RenderPath: the output path is rendered in lenient mode
RenderPathLenient(path, bag) ==
  LET r == ReplaceOp(Normalize(path), bag, Paths, FALSE)
  IN IF r.kind = "null" THEN [kind |-> "string", s |-> <<"n", "u", "l", "l">>] ELSE r

\* `this.replace(Path.normalize(path), form.bag, true)`
RenderPath(path, bag) == ReplaceOp(Normalize(path), bag, Paths, TRUE)

\* the loop over form.form.files from entry k; the fetch of template
\* failAt is the one that is rejected (0: none):
\* [status, at, fetched, files]
RECURSIVE RenderFiles(_, _, _, _, _)
RenderFiles(templates, bag, k, files, failAt) ==
  IF k > Len(templates)
    THEN [status |-> "ok", at |-> 0, fetched |-> k - 1, files |-> files]
  ELSE IF k = failAt
    THEN [status |-> "template", at |-> k, fetched |-> k, files |-> files]
  ELSE LET t == ReplaceOp(templates[k].text, bag, Paths, FALSE)
           content == IF t.kind = "string" THEN Str(t.s) ELSE Null
           path == RenderPath(templates[k].path, bag)
       IN IF path.kind = "throw"
            THEN [status |-> "path", at |-> k, fetched |-> k, files |-> files]
            ELSE RenderFiles(templates, bag, k + 1, SetFile(files, path.s, content),
                             failAt)

\* a mutation of FormFetched: a rejected fetch of the form is not noticed
FormFetchedAlways(outcome) == TRUE

\* `await this.request(...)` in form: a response that is not 200 rejects
FormFetched(outcome) == outcome # "formRejected"

\* a mutation of Accepted: every valid answer counts as consent
AcceptedAny(answer) == answer \in {<<"y">>, <<"n">>}

\* `return input.answer === 'y'`
Accepted(answer) == answer = <<"y">>

\* the condition of readlineAccept
ValidAnswer(answer) == answer \in {<<"y">>, <<"n">>}

\* FS.writeFileSync(path, content)
WriteFile(disk, path, content) == (path :> content) @@ disk

\* -------------------------------------------------------- generate: actions
\* the handler up to the confirmation prompt
Generate(outcome, failAt) ==
  /\ ~gen.called
  /\ failAt <= Len(gen.templates)
  /\ \E r \in {RenderFiles(gen.templates, gen.bag, 1, <<>>, failAt)} :
     \E g \in {[gen EXCEPT !.called = TRUE,
                           !.env = [form |-> outcome, failAt |-> failAt]]} :
       gen' = IF ~FormFetched(outcome)
                THEN [g EXCEPT !.phase = "error", !.result = "error",
                        !.failure = "form", !.errors = Append(@, "failed")]
              ELSE IF r.status = "template"
                THEN [g EXCEPT !.phase = "error", !.result = "error",
                        !.failure = "template", !.collected = TRUE,
                        !.fetched = r.fetched, !.errors = Append(@, "failed")]
              ELSE IF r.status = "path"
                THEN [g EXCEPT !.phase = "error", !.result = "error",
                        !.failure = "path", !.collected = TRUE,
                        !.fetched = r.fetched, !.errors = Append(@, "failed"),
                        !.lines = Append(@,
                           LogErrorMsg(MsgCannotGenerate,
                              ("!path" :> gen.templates[r.at].path) @@
                              ("message" :> MsgReplace)).line)]
              ELSE [g EXCEPT !.phase = "confirm", !.collected = TRUE,
                      !.fetched = r.fetched, !.asked = 1, !.files = r.files]
  /\ UNCHANGED <<exeVars, sysVars, repVars, chain, frm, runVars>>

\* an answer to 'Write file [y/n]: '
Confirm(answer) ==
  /\ gen.phase = "confirm"
  /\ ~ValidAnswer(answer) => gen.retries < MaxRetries
  /\ gen' = IF ~ValidAnswer(answer)
              THEN [gen EXCEPT !.retries = @ + 1, !.answer = answer,
                      !.asked = @ + 1,
                      !.errors = Append(@, "Please use y or n")]
            ELSE IF Accepted(answer)
              THEN [gen EXCEPT !.answer = answer, !.next = 1,
                      !.phase = IF gen.files = <<>> THEN "done" ELSE "writing",
                      !.result = IF gen.files = <<>> THEN "undefined" ELSE @]
            ELSE [gen EXCEPT !.answer = answer, !.phase = "done",
                    !.result = "undefined",
                    !.errors = Append(@, "No consent. Abort!")]
  /\ UNCHANGED <<exeVars, sysVars, repVars, chain, frm, runVars>>

\* the read of the confirmation fails: `if (input.error) throw input.error`
ConfirmFails ==
  /\ gen.phase = "confirm"
  /\ gen' = [gen EXCEPT !.phase = "error", !.result = "error",
               !.errors = Append(@, "failed")]
  /\ UNCHANGED <<exeVars, sysVars, repVars, chain, frm, runVars>>

\* write(file, files[file], true) for the next file; a failed write ends
\* the handler with the earlier files left written
Write(outcome) ==
  /\ gen.phase = "writing"
  /\ LET f == gen.files[gen.next]
         last == gen.next = Len(gen.files)
     IN gen' = IF outcome = "written"
                 THEN [gen EXCEPT
                         !.disk = WriteFile(@, f.path,
                                    IF f.content = Null THEN Str(<<"n", "u", "l", "l">>)
                                    ELSE f.content),
                         !.next = @ + 1,
                         !.phase = IF last THEN "done" ELSE "writing",
                         !.result = IF last THEN "undefined" ELSE @]
                 ELSE [gen EXCEPT !.phase = "done", !.result = "undefined",
                         !.errors = Append(@, "write")]
  /\ UNCHANGED <<exeVars, sysVars, repVars, chain, frm, runVars>>

InitGenerate ==
  /\ gen \in {[NoGen EXCEPT !.bag = b, !.templates = t, !.disk = d, !.before = d] :
                b \in GenBags, t \in Outputs, d \in Disks}
  /\ chain = NoChain
  /\ frm = NoFrm
  /\ rep = NoRep
  /\ exe = NewExecutable(Name("generate"), ".js",
                         Arr(<<Arr(<<Str(Name("name"))>>)>>), "fn")
  /\ res = NoRes
  /\ proc = NoProc
  /\ lg = NoLg
  /\ dep = NoDep
  /\ wr = NoWr
  /\ og = NoOg
  /\ out = <<>>
  /\ sys = NewSystem
  /\ fs = NoFs

NextGenerate ==
  \/ \E o \in {"ok", "formRejected"}, k \in 0..MaxOutputs : Generate(o, k)
  \/ \E a \in {<<"y">>, <<"n">>, <<>>} : Confirm(a)
  \/ ConfirmFails
  \/ \E o \in {"written", "failed"} : Write(o)

SpecGenerate == InitGenerate /\ [][NextGenerate]_vars

\* C20: when the user answers n to the confirmation prompt no file is
\* written or modified: the files and their content after generate are
\* those before it, whatever the form and the rendered files.
C20_DeclinedWritesNothing ==
  /\ gen.answer = <<"n">> =>
        /\ gen.phase = "done"
        /\ gen.disk = gen.before
        /\ gen.next = 0
  /\ gen.phase \in {"idle", "confirm", "error"} => gen.disk = gen.before

C20_Witness ==
  /\ gen.answer = <<"n">>
  /\ gen.phase = "done"
  /\ Len(gen.files) = 2
  /\ \E k \in DOMAIN gen.files :
        /\ gen.files[k].path \in DOMAIN gen.disk
        /\ gen.files[k].content # gen.disk[gen.files[k].path]
  /\ gen.disk = gen.before

C21_WitnessTemplate ==
  /\ gen.called
  /\ gen.failure = "template"
  /\ gen.env.failAt = 2
  /\ gen.phase = "error"

\* the output path template holds a required placeholder or a required
\* path macro that cannot be resolved
Unresolvable(path, bag) ==
  \/ HasAbsentRequired(path, bag)
  \/ \E p \in 1..Len(path) : IsAt(path, p, <<"@", "!", "q">>)

\* the first output, in the order of form.files, whose path cannot be
\* resolved and whose template has been fetched
FirstUnresolvable ==
  CHOOSE k \in DOMAIN gen.templates :
     /\ Unresolvable(gen.templates[k].path, gen.bag)
     /\ \A j \in 1..(k - 1) : ~Unresolvable(gen.templates[j].path, gen.bag)

PathFailureCase ==
  /\ gen.called
  /\ gen.env.form = "ok"
  /\ \E k \in DOMAIN gen.templates : Unresolvable(gen.templates[k].path, gen.bag)
  /\ gen.env.failAt = 0 \/ gen.env.failAt > FirstUnresolvable

\* C22: output paths are rendered in strict mode: when an output path
\* template holds a required placeholder or required path macro that
\* cannot be resolved, an error naming that path is reported, the
\* confirmation prompt is never shown and no file is written.
C22_StrictOutputPaths ==
  PathFailureCase =>
      /\ gen.failure = "path"
      /\ gen.phase = "error" /\ gen.result = "error"
      /\ gen.asked = 0
      /\ gen.disk = gen.before
      /\ Len(gen.lines) = 1
      /\ gen.lines[1].level = "error"
      /\ gen.lines[1].text[2] = Val(gen.templates[FirstUnresolvable].path)

C22_Witness ==
  /\ PathFailureCase
  /\ Len(gen.templates) = 2
  /\ FirstUnresolvable = 2
  /\ gen.templates[2].path = <<"@", "!", "q">>
  /\ gen.fetched = 2
  /\ gen.failure = "path"

\* ----------------------------------------------------- external processes
ExitCodes == {0, 1, 2}

ExitMsg(code) == <<Lit("Exit with code: "), Val(code)>>

\* new LoshError('Exit with code: ' + code)
ExitError(code) ==
  [class |-> "LoshError", message |-> ExitMsg(code), printed |-> FALSE,
   stricted |-> FALSE]

SpawnFailure ==
  [class |-> "Error", message |-> <<Lit("spawn failed")>>, printed |-> FALSE,
   stricted |-> FALSE]

\* the `close` handler of Executable.shell (stdio inherited) and of
\* Executable.sh (output captured): how the promise settles, and with what
CloseOp(mode, code) ==
  IF code = 0
    THEN [state |-> "fulfilled", value |-> [code |-> code, error |-> NoError]]
  ELSE IF mode = "shell"
    THEN [state |-> "fulfilled", value |-> [code |-> code, error |-> ExitError(code)]]
  ELSE [state |-> "rejected", value |-> [code |-> code, error |-> ExitError(code)]]

\* a mutation of CheckError: strict mode is ignored
CheckErrorLenient(strict, value) ==
  IF value.error = NoError
    THEN [state |-> "fulfilled", value |-> value, lines |-> <<>>]
  ELSE [state |-> "fulfilled",
        value |-> [value EXCEPT !.error.printed = TRUE],
        lines |-> IF value.error.printed THEN <<>>
                  ELSE <<[level |-> "error", text |-> value.error.message]>>]

\* Executable.checkError(result) on the result of a fulfilled promise:
\* [state, value, lines]
CheckError(strict, value) ==
  IF value.error = NoError
    THEN [state |-> "fulfilled", value |-> value, lines |-> <<>>]
  ELSE IF strict
    THEN [state |-> "rejected",
          value |-> [value EXCEPT !.error.stricted = TRUE], lines |-> <<>>]
  ELSE [state |-> "fulfilled",
        value |-> [value EXCEPT !.error.printed = TRUE],
        lines |-> IF value.error.printed THEN <<>>
                  ELSE <<[level |-> "error", text |-> value.error.message]>>]

\* ShellCommand.sh / ShellCommand.shell: checkError(await ...); a rejected
\* promise throws out of the await
ViaCommand(strict, r) ==
  IF r.state = "rejected" THEN [state |-> "rejected", value |-> r.value, lines |-> <<>>]
  ELSE CheckError(strict, r.value)

\* ------------------------------------------- external processes: actions
\* Executable.strict(boolean)
Strict(b) ==
  /\ proc.strict # b
  /\ proc' = [proc EXCEPT !.strict = b]
  /\ UNCHANGED <<exeVars, sysVars, repVars, flowVars, lg, dep, wr, og>>

\* a process is spawned by Executable.sh / shell directly, or through the
\* ShellCommand wrapper of the same name
Start(mode, via) ==
  /\ proc.state # "running"
  /\ proc.calls < MaxCalls
  /\ proc' = [proc EXCEPT !.calls = @ + 1, !.mode = mode, !.via = via,
                !.state = "running", !.exit = "none", !.code = 0, !.value = Undef]
  /\ UNCHANGED <<exeVars, sysVars, repVars, flowVars, lg, dep, wr, og>>

\* the process closes with an exit code
Close(code) ==
  /\ proc.state = "running"
  /\ \E r \in {CloseOp(proc.mode, code)} :
     \E w \in {IF proc.via = "command" THEN ViaCommand(proc.strict, r)
               ELSE [state |-> r.state, value |-> r.value, lines |-> <<>>]} :
       proc' = [proc EXCEPT !.state = w.state, !.value = w.value,
                  !.exit = "closed", !.code = code, !.strictAtExit = proc.strict,
                  !.lines = @ \o w.lines]
  /\ UNCHANGED <<exeVars, sysVars, repVars, flowVars, lg, dep, wr, og>>

\* the `error` event of the child process: logged, and the promise rejects
SpawnError ==
  /\ proc.state = "running"
  /\ proc' = [proc EXCEPT !.state = "rejected", !.exit = "error",
                !.strictAtExit = proc.strict,
                !.value = [error |-> SpawnFailure],
                !.lines = Append(@, [level |-> "error", text |-> SpawnFailure.message])]
  /\ UNCHANGED <<exeVars, sysVars, repVars, flowVars, lg, dep, wr, og>>

InitShell ==
  /\ proc = NoProc
  /\ lg = NoLg
  /\ dep = NoDep
  /\ wr = NoWr
  /\ og = NoOg
  /\ chain = NoChain
  /\ frm = NoFrm
  /\ gen = NoGen
  /\ rep = NoRep
  /\ exe = NewExecutable(Name("cr"), ".js", Undef, "fn")
  /\ res = NoRes
  /\ out = <<>>
  /\ sys = NewSystem
  /\ fs = NoFs

NextShell ==
  \/ \E b \in BOOLEAN : Strict(b)
  \/ \E m \in {"sh", "shell"}, v \in {"executable", "command"} : Start(m, v)
  \/ \E c \in ExitCodes : Close(c)
  \/ SpawnError

SpecShell == InitShell /\ [][NextShell]_vars

\* C23: in inherit mode (shell) as in capture mode (sh) a nonzero exit code
\* makes the promise fulfil with a result that carries the error and the
\* exit code; it is not rejected unless strict mode is on.
C23_NonZeroExitFulfils ==
  (proc.exit = "closed" /\ proc.code # 0 /\ ~proc.strictAtExit) =>
      /\ proc.state = "fulfilled"
      /\ proc.value.code = proc.code
      /\ proc.value.error.class = "LoshError"

\* ----------------------------------------------------- Log.error / failed
\* what a caller hands to Log.error / Log.failed: an Error, an object whose
\* `error` is an Error, or a message string
LogMessages ==
  [kind : {"error", "wrapped"}, id : ErrIds] \cup {[kind |-> "string", id |-> 0]}

\* Log.getError: the Error of the message (its id), or null (0)
GetError(m) == IF m.kind \in {"error", "wrapped"} THEN m.id ELSE 0

\* a mutation of LogErrorErr: the message is printed, the flag is not set
LogErrorErrNoMark(err) ==
  [lines |-> IF err.printed THEN <<>>
             ELSE <<[level |-> "error", text |-> err.message]>>,
   error |-> err]

\* Log.error with an Error: prints it unless it was printed before
LogErrorErr(err) ==
  [lines |-> IF err.printed THEN <<>>
             ELSE <<[level |-> "error", text |-> err.message]>>,
   error |-> [err EXCEPT !.printed = TRUE]]

\* the text Log.failed prints for an Error
FailedText(err, full) ==
  (IF err.stricted THEN <<Lit("Abort caused by strict mode. ")>> ELSE <<>>)
    \o (IF full THEN <<Lit("stack of ")>> ELSE <<>>) \o err.message

\* the log after one call of Log.error (fn = "error") or Log.failed
\* (fn = "failed")
LogCall(fn, m, full) ==
  The({ IF i # 0
          THEN The({ [lg EXCEPT
                       !.errs[i] = [r.error EXCEPT !.passed = @ + 1],
                       !.lines = @ \o [k \in 1..Len(r.lines) |->
                                         [level |-> r.lines[k].level, id |-> i,
                                          text |-> IF fn = "error" THEN r.lines[k].text
                                                   ELSE FailedText(lg.errs[i], full)]],
                       !.calls = @ + 1,
                       !.last = [fn |-> fn, id |-> i, wrote |-> r.lines # <<>>]]
                     : r \in {IF fn = "error" THEN LogErrorErr(lg.errs[i])
                              ELSE LogFailedErr(lg.errs[i])} })
          ELSE [lg EXCEPT
                  !.lines = Append(@, [level |-> fn, id |-> 0,
                                       text |-> <<Lit("message")>>]),
                  !.calls = @ + 1, !.made = @ + 1,
                  !.last = [fn |-> fn, id |-> 0, wrote |-> TRUE]]
        : i \in {GetError(m)} })

\* Log.error(message)
LogError(m) ==
  /\ lg.calls < MaxLogCalls
  /\ lg' = LogCall("error", m, FALSE)
  /\ UNCHANGED <<exeVars, sysVars, repVars, flowVars, proc, dep, wr, og>>

\* Log.failed(message, placeholders, full)
LogFailed(m, full) ==
  /\ lg.calls < MaxLogCalls
  /\ lg' = LogCall("failed", m, full)
  /\ UNCHANGED <<exeVars, sysVars, repVars, flowVars, proc, dep, wr, og>>

\* Executable.checkError in strict mode marks the error and throws it
\* without printing it
Stricted(i) ==
  /\ ~lg.errs[i].stricted
  /\ lg' = [lg EXCEPT !.errs[i].stricted = TRUE, !.last = NoCall]
  /\ UNCHANGED <<exeVars, sysVars, repVars, flowVars, proc, dep, wr, og>>

InitLog ==
  /\ lg = NoLg
  /\ proc = NoProc
  /\ dep = NoDep
  /\ wr = NoWr
  /\ og = NoOg
  /\ chain = NoChain
  /\ frm = NoFrm
  /\ gen = NoGen
  /\ rep = NoRep
  /\ exe = NewExecutable(Name("cr"), ".js", Undef, "fn")
  /\ res = NoRes
  /\ out = <<>>
  /\ sys = NewSystem
  /\ fs = NoFs

NextLog ==
  \/ \E m \in LogMessages : LogError(m)
  \/ \E m \in LogMessages, full \in BOOLEAN : LogFailed(m, full)
  \/ \E i \in ErrIds : Stricted(i)

SpecLog == InitLog /\ [][NextLog]_vars

\* the lines the log wrote for the Error i
LinesOf(l, i) == SelectSeq(l.lines, LAMBDA x : x.id = i)

\* C24: an Error is printed at most once. A call of Log.error or Log.failed
\* with an Error that was not printed writes one line and sets its `printed`
\* flag; a call with a printed Error writes nothing; no step resets the flag
\* or adds a second line for the Error.
C24_PrintedOnce ==
  [][\A i \in ErrIds :
       /\ lg.errs[i].printed =>
            lg'.errs[i].printed /\ LinesOf(lg', i) = LinesOf(lg, i)
       /\ (lg'.calls = lg.calls + 1 /\ lg'.last.id = i /\ ~lg.errs[i].printed) =>
            /\ lg'.errs[i].printed
            /\ lg'.last.wrote
            /\ Len(LinesOf(lg', i)) = 1
       /\ Len(LinesOf(lg', i)) <= 1]_vars

\* the same Error went through Log.error and Log.failed three times, and
\* the log holds one line for it
C24_Witness ==
  \E i \in ErrIds :
    /\ lg.errs[i].passed = 3
    /\ lg.errs[i].printed
    /\ Len(LinesOf(lg, i)) = 1
    /\ lg.last.id = i
    /\ ~lg.last.wrote

\* ------------------------------------------------- failures of a handler
\* the command System.execute ran is a native one: a built-in function or a
\* module of the extension directory
RanNative ==
  /\ res.op = "execute"
  /\ Len(res.call) > 0
  /\ Resolved(sys, ShiftName(res.call))
  /\ Lookup(sys._commands.a, ShiftName(res.call)).kind \in {"native", "file"}
  /\ exe.extname = ".js"

\* C25: for every registered native command, whatever its handler does, the
\* promise System.execute returns is fulfilled and never rejected.
C25_NativeNeverRejects ==
  RanNative => res.settled = "fulfilled"

\* within run's try block the claim holds: a handler that throws (or whose
\* promise rejects) is caught, logged as failed and returned as the result
C25_HandlerFailureCaught ==
  (RanNative /\ res.handlerStarted) =>
      /\ res.settled = "fulfilled"
      /\ (res.isError => \E k \in DOMAIN out : out[k].level = "failed")

\* ------------------------------------ generate built on Executable.for
\* what the step callback of generate hands back to the chain once the
\* template is there: it calls readlineAccept(...).then(...) without
\* returning it, so the value is undefined and the step's promise fulfils
\* at once
StepReturns == "undefined"

\* Executable.for: `promise.then(factory.bind(null, list[index], index))`,
\* the factory of step i + 1 is called when the promise of step i fulfils
NextStarts(phase, i) ==
  IF i < Len(phase) /\ StepReturns = "undefined"
    THEN [phase EXCEPT ![i + 1] = "fetching"]
    ELSE phase

\* generate: the form is collected, and Executable.for calls the factory of
\* the first file, which requests its template
OldGenerate(n, exists) ==
  /\ ~og.called
  /\ exists \subseteq 1..n
  /\ og' = [og EXCEPT !.called = TRUE, !.n = n, !.exists = exists,
              !.phase = [i \in 1..n |-> IF i = 1 THEN "fetching" ELSE "idle"]]
  /\ UNCHANGED <<exeVars, sysVars, repVars, flowVars, proc, lg, dep, wr>>

\* the template of step i arrives: the path is rendered and the
\* confirmation prompt opened; the callback returns
TemplateFetched(i) ==
  /\ og.called /\ i \in 1..og.n
  /\ og.phase[i] = "fetching"
  /\ og' = [og EXCEPT !.phase = NextStarts([og.phase EXCEPT ![i] = "asking"], i)]
  /\ UNCHANGED <<exeVars, sysVars, repVars, flowVars, proc, lg, dep, wr>>

\* the request of the template of step i fails: its promise rejects, and
\* so does the chain
TemplateFails(i) ==
  /\ og.called /\ i \in 1..og.n
  /\ og.phase[i] = "fetching"
  /\ og' = [og EXCEPT !.phase[i] = "failed"]
  /\ UNCHANGED <<exeVars, sysVars, repVars, flowVars, proc, lg, dep, wr>>

\* the user answers the confirmation prompt of step i: on y write(file,
\* content) is called, which asks again when the file exists; otherwise
\* the handler calls resolve()
Confirmed(i, accept) ==
  /\ og.called /\ i \in 1..og.n
  /\ og.phase[i] = "asking"
  /\ og' = [og EXCEPT
              !.phase[i] = IF ~accept THEN "declined"
                           ELSE IF i \in og.exists THEN "overwrite"
                           ELSE "writing",
              !.resolved = @ \/ ~accept]
  /\ UNCHANGED <<exeVars, sysVars, repVars, flowVars, proc, lg, dep, wr>>

\* the user answers the overwrite prompt of write
Overwrite(i, accept) ==
  /\ og.called /\ i \in 1..og.n
  /\ og.phase[i] = "overwrite"
  /\ og' = [og EXCEPT !.phase[i] = IF accept THEN "writing" ELSE "aborted"]
  /\ UNCHANGED <<exeVars, sysVars, repVars, flowVars, proc, lg, dep, wr>>

\* FS.writeFile of step i completes
Written(i) ==
  /\ og.called /\ i \in 1..og.n
  /\ og.phase[i] = "writing"
  /\ og' = [og EXCEPT !.phase[i] = "done", !.written = Append(@, i),
              !.exists = @ \cup {i}]
  /\ UNCHANGED <<exeVars, sysVars, repVars, flowVars, proc, lg, dep, wr>>

InitOldGenerate ==
  /\ og = NoOg
  /\ proc = NoProc
  /\ lg = NoLg
  /\ dep = NoDep
  /\ wr = NoWr
  /\ chain = NoChain
  /\ frm = NoFrm
  /\ gen = NoGen
  /\ rep = NoRep
  /\ exe = NewExecutable(Name("generate"), ".js", Undef, "fn")
  /\ res = NoRes
  /\ out = <<>>
  /\ sys = NewSystem
  /\ fs = NoFs

NextOldGenerate ==
  \/ \E n \in 1..MaxTemplates, e \in SUBSET (1..MaxTemplates) : OldGenerate(n, e)
  \/ \E i \in 1..MaxTemplates : TemplateFetched(i)
  \/ \E i \in 1..MaxTemplates : TemplateFails(i)
  \/ \E i \in 1..MaxTemplates, a \in BOOLEAN : Confirmed(i, a)
  \/ \E i \in 1..MaxTemplates, a \in BOOLEAN : Overwrite(i, a)
  \/ \E i \in 1..MaxTemplates : Written(i)

SpecOldGenerate == InitOldGenerate /\ [][NextOldGenerate]_vars

\* the step of file i has completed: it was declined, or its write ended
StepCompleted(i) == og.phase[i] \in {"done", "declined", "aborted"}

\* C26: no two steps are in progress together: the step of file i + 1 does
\* not start until the confirmation prompt and the write of file i have
\* completed.
C26_StepsDoNotOverlap ==
  og.called =>
    \A i \in 1..(og.n - 1) : og.phase[i + 1] # "idle" => StepCompleted(i)

\* ------------------------------------------------------- deploy scripts
\* the steps: hash and newHash are git.getCurrentHash (shExecute, output
\* captured); pull, composer, cr, cim and crLast are git.pull,
\* composer.install, drush.cr, drush.cim and the closing drush.cr (execute
\* or shellc, stdio inherited); write is Executable.write(path, hash, true)
ModeOf(step) ==
  IF step \in {"hash", "newHash"} THEN "sh"
  ELSE IF step = "write" THEN "write"
  ELSE "shell"

DeployTypes == {"standard", "update", "speed"}

\* the deploy template: the step that follows a step, in program order
TemplateNext(step) ==
  CASE step = "hash" -> "write"
    [] step = "write" -> "pull"
    [] step = "pull" -> "newHash"
    [] step = "newHash" -> "composer"
    [] step = "composer" -> "cr"
    [] step = "cr" -> "cim"
    [] OTHER -> "end"

\* the deploy template tests `result.error` after these steps only
TemplateChecked == {"write", "pull", "composer"}

\* the strict deploy script: the step that follows a step
AfterComposer(type) == IF type = "standard" THEN "cr" ELSE "crLast"

AfterWrite(type) ==
  IF type \in {"standard", "update"} THEN "composer" ELSE AfterComposer(type)

StrictNext(step, type, changed) ==
  CASE step = "hash" -> "pull"
    [] step = "pull" -> "newHash"
    [] step = "newHash" -> IF changed THEN "write" ELSE AfterWrite(type)
    [] step = "write" -> AfterWrite(type)
    [] step = "composer" -> AfterComposer(type)
    [] step = "cr" -> "cim"
    [] step = "cim" -> "crLast"
    [] OTHER -> "end"

IOError ==
  [class |-> "Error", message |-> <<Lit("EACCES")>>, printed |-> FALSE,
   stricted |-> FALSE]

\* what happens to a step: its process exits with a code, or cannot be
\* spawned; the file is written ("ok"), or FS.writeFileSync throws ("io")
Exit(code) == [kind |-> "exit", code |-> code]
Spawn == [kind |-> "spawn", code |-> 0]
Wrote(kind) == [kind |-> kind, code |-> 0]

\* how the awaited promise of a step settles
StepResult(step, strict, outcome) ==
  IF ModeOf(step) = "write"
    THEN IF outcome.kind = "ok"
           THEN [state |-> "fulfilled", value |-> [error |-> NoError], lines |-> <<>>]
           ELSE CheckError(strict, [error |-> IOError])
  ELSE IF outcome.kind = "spawn"
    THEN [state |-> "rejected", value |-> [error |-> SpawnFailure],
          lines |-> IF ModeOf(step) = "sh"
                      THEN <<[level |-> "error", text |-> SpawnFailure.message]>>
                      ELSE <<>>]
  ELSE ViaCommand(strict, CloseOp(ModeOf(step), outcome.code))

\* the step failed: its process exited nonzero or could not be spawned,
\* or the file could not be written
StepFailed(outcome) ==
  outcome.kind \in {"io", "spawn"} \/ (outcome.kind = "exit" /\ outcome.code # 0)

\* the catch block of the strict script: log.failed('Failed with error:')
\* and {error: log.error(error)}
CatchLines(r) ==
  <<[level |-> "failed", text |-> <<Lit("Failed with error:")>>]>>
    \o (IF r.value.error.printed THEN <<>>
        ELSE <<[level |-> "error", text |-> r.value.error.message]>>)

\* the script after the awaited step settled with r
Continue(d, r, failed, changed) ==
  The({
    IF r.state = "rejected"
      THEN IF d.script = "strict"
             THEN [d1 EXCEPT !.status = "returned", !.result = "error",
                              !.step = "none", !.lines = @ \o CatchLines(r)]
             ELSE [d1 EXCEPT !.status = "threw", !.result = "error", !.step = "none"]
    ELSE IF d.script = "template" /\ d.step \in TemplateChecked
              /\ r.value.error # NoError
      THEN [d1 EXCEPT !.status = "returned", !.result = "undefined", !.step = "none"]
    ELSE The({
           IF next = "end"
             THEN [d1 EXCEPT !.status = "returned", !.result = "undefined",
                              !.step = "none",
                              !.finished = (d.script = "strict"),
                              !.lines = IF d.script = "strict"
                                          THEN Append(@, [level |-> "success",
                                                          text |-> <<Lit("Finished.")>>])
                                          ELSE @]
             ELSE [d1 EXCEPT !.step = next, !.started = Append(@, next)]
           : next \in {IF d.script = "template" THEN TemplateNext(d.step)
                       ELSE StrictNext(d.step, d.type, d1.changed)} })
    : d1 \in {[d EXCEPT !.lines = @ \o r.lines,
                        !.failed = IF failed THEN @ \cup {Len(d.started)} ELSE @,
                        !.changed = IF d.step = "newHash" THEN changed ELSE @]} })

\* the handler is called: the strict script switches strict mode on; both
\* begin by reading the current hash
Deploy(script, type) ==
  /\ dep.status = "idle"
  /\ script = "template" => type = "none"
  /\ script = "strict" => type \in DeployTypes
  /\ dep' = [dep EXCEPT !.script = script, !.type = type,
               !.strict = (script = "strict"), !.status = "running",
               !.step = "hash", !.started = <<"hash">>]
  /\ UNCHANGED <<exeVars, sysVars, repVars, flowVars, proc, lg, wr, og>>

\* the process of the running step closes with an exit code; changed says
\* whether the hash read after the pull differs from the one read before
StepCloses(code, changed) ==
  /\ dep.status = "running"
  /\ ModeOf(dep.step) \in {"sh", "shell"}
  /\ (dep.step # "newHash" \/ code # 0 \/ dep.script = "template") => ~changed
  /\ \E r \in {StepResult(dep.step, dep.strict, Exit(code))} :
       dep' = Continue(dep, r, StepFailed(Exit(code)), changed)
  /\ UNCHANGED <<exeVars, sysVars, repVars, flowVars, proc, lg, wr, og>>

\* the process of the running step cannot be spawned
StepSpawnError ==
  /\ dep.status = "running"
  /\ ModeOf(dep.step) \in {"sh", "shell"}
  /\ \E r \in {StepResult(dep.step, dep.strict, Spawn)} :
       dep' = Continue(dep, r, StepFailed(Spawn), FALSE)
  /\ UNCHANGED <<exeVars, sysVars, repVars, flowVars, proc, lg, wr, og>>

\* write(path, hash, true) settles
HashWritten(outcome) ==
  /\ dep.status = "running"
  /\ ModeOf(dep.step) = "write"
  /\ \E r \in {StepResult(dep.step, dep.strict, Wrote(outcome))} :
       dep' = Continue(dep, r, StepFailed(Wrote(outcome)), FALSE)
  /\ UNCHANGED <<exeVars, sysVars, repVars, flowVars, proc, lg, wr, og>>

InitDeploy ==
  /\ dep = NoDep
  /\ proc = NoProc
  /\ lg = NoLg
  /\ wr = NoWr
  /\ og = NoOg
  /\ chain = NoChain
  /\ frm = NoFrm
  /\ gen = NoGen
  /\ rep = NoRep
  /\ exe = NewExecutable(Name("deploy"), ".js", Undef, "fn")
  /\ res = NoRes
  /\ out = <<>>
  /\ sys = NewSystem
  /\ fs = NoFs

NextDeploy ==
  \/ \E s \in {"template", "strict"}, t \in DeployTypes \cup {"none"} : Deploy(s, t)
  \/ \E c \in ExitCodes, ch \in BOOLEAN : StepCloses(c, ch)
  \/ StepSpawnError
  \/ \E o \in {"ok", "io"} : HashWritten(o)

SpecDeploy == InitDeploy /\ [][NextDeploy]_vars

\* the steps the claims name, in the order the template runs them
TemplateOrder == <<"write", "pull", "composer", "cr", "cim">>

\* the steps of dep.started that TemplateOrder names
NamedSteps == SelectSeq(dep.started, LAMBDA x : x \in {"write", "pull", "composer", "cr", "cim"})

\* no step was started after a step that failed
NoStepAfterFailure == \A k \in dep.failed : k = Len(dep.started)

\* C27: the deploy template runs write hash, git pull, composer install,
\* drush cr, drush cim in this order, and once any of these steps has
\* failed no later step is started, drush cr included.
C27_TemplateFailFast ==
  dep.script = "template" =>
    /\ NamedSteps = SubSeq(TemplateOrder, 1, Len(NamedSteps))
    /\ NoStepAfterFailure

\* C30: in the strict deploy script, once any external step fails no later
\* step is started, 'Finished.' is never logged, and the handler returns
\* the error instead of throwing it.
C30_StrictFailFast ==
  dep.script = "strict" =>
    /\ NoStepAfterFailure
    /\ dep.status # "threw"
    /\ dep.failed # {} =>
         /\ ~dep.finished
         /\ \A k \in DOMAIN dep.lines : dep.lines[k].level # "success"
         /\ dep.status = "returned"
         /\ dep.result = "error"

\* composer install failed with a nonzero exit code in the strict script
C30_Witness ==
  /\ dep.script = "strict"
  /\ dep.type = "standard"
  /\ dep.changed
  /\ dep.started = <<"hash", "pull", "newHash", "write", "composer">>
  /\ dep.failed = {5}
  /\ dep.status = "returned"
  /\ dep.result = "error"

\* the strict script ran to its end
C30_WitnessFinished ==
  /\ dep.script = "strict"
  /\ dep.finished
  /\ dep.failed = {}
  /\ Len(dep.started) = 8

\* ------------------------------------------------------ Executable.write
\* src/bin/losh.js is version "bin", src/unnamed/part_003 version "part3"
MsgNoConsent == <<Lit("No user consent to overwrite. Abort!")>>
MsgAbort == <<Lit("Abort!")>>
MsgYesNo == <<Lit("Please use \"y\" for yes and \"n\" for no.")>>

\* a mutation of NeedsConsent: the file is written without asking
NeedsConsentNever(force, disk) == FALSE

\* `!force && FS.existsSync(path)`
NeedsConsent(force, disk) == ~force /\ disk # "absent"

\* the file is written, or the write fails (io): version "bin" catches
\* the exception of FS.writeFileSync and passes {path, content, force,
\* error} to checkError; version "part3" resolves from the callback of
\* FS.writeFile without looking at its error
DoWrite(w, consent, io) ==
  IF w.version = "part3"
    THEN [w EXCEPT !.phase = "settled", !.state = "fulfilled", !.created = "yes",
                   !.consent = consent, !.wrote = ~io,
                   !.disk = IF io THEN @ ELSE "new"]
  ELSE IF ~io
    THEN [w EXCEPT !.phase = "settled", !.state = "fulfilled", !.consent = consent,
                   !.wrote = TRUE, !.disk = "new"]
  ELSE The({ [w EXCEPT !.phase = "settled", !.state = c.state,
                       !.error = c.value.error, !.lines = @ \o c.lines]
             : c \in {CheckError(w.strict, [error |-> IOError])} })

\* the user did not consent.  Version "bin": the result carries the error
\* Log.error returns; in strict mode checkError throws the result inside
\* the try block, the catch block passes it to checkError again, and write
\* rejects with it.  Version "part3": 'Abort!' is logged and the result is
\* {path, content, created: false}.
NoConsent(w) ==
  IF w.version = "part3"
    THEN [w EXCEPT !.phase = "settled", !.state = "fulfilled", !.created = "no",
                   !.lines = Append(@, LogErrorMsg(MsgAbort, <<>>).line)]
  ELSE The({
         The({ [w EXCEPT !.phase = "settled", !.state = c.state,
                         !.error = c.value.error,
                         !.lines = Append(@, l.line) \o c.lines]
               : c \in {CheckError(w.strict,
                          [error |-> [class |-> "LoshError", message |-> MsgNoConsent,
                                      printed |-> TRUE, stricted |-> FALSE]])} })
         : l \in {LogErrorMsg(MsgNoConsent, <<>>)} })

\* write(path, content, force)
ExecutableWrite(version, strict, force, io) ==
  /\ wr.phase \in {"idle", "settled"}
  /\ wr.calls < MaxWrites
  /\ version = "part3" => ~strict
  /\ \E w \in {[NoWr EXCEPT !.version = version, !.strict = strict, !.force = force,
                            !.disk = wr.disk, !.before = wr.disk,
                            !.calls = wr.calls + 1]} :
       IF NeedsConsent(force, wr.disk)
         THEN ~io /\ wr' = [w EXCEPT !.phase = "asking", !.asks = 1]
         ELSE wr' = DoWrite(w, FALSE, io)
  /\ UNCHANGED <<exeVars, sysVars, repVars, flowVars, proc, lg, dep, og>>

\* readlineAccept: the answer to 'Do you want to overwrite the file?';
\* any answer but y and n is refused and the question asked again
ReadlineAccept(answer, io) ==
  /\ wr.phase = "asking"
  /\ answer = "y" \/ ~io
  /\ answer = "x" => wr.asks < MaxAsks
  /\ wr' = IF answer = "x"
             THEN [wr EXCEPT !.asks = @ + 1, !.answered = answer,
                             !.lines = Append(@, LogErrorMsg(MsgYesNo, <<>>).line)]
           ELSE IF answer = "y"
             THEN DoWrite([wr EXCEPT !.answered = answer], TRUE, io)
           ELSE NoConsent([wr EXCEPT !.answered = answer])
  /\ UNCHANGED <<exeVars, sysVars, repVars, flowVars, proc, lg, dep, og>>

\* version "bin": readline hands back an error, readlineAccept throws it
\* and the catch block of write passes {path, content, force, error} on
ReadlineFails ==
  /\ wr.phase = "asking"
  /\ wr.version = "bin"
  /\ \E c \in {CheckError(wr.strict,
                  [error |-> [class |-> ReadFailure.class,
                              message |-> ReadFailure.message,
                              printed |-> FALSE, stricted |-> FALSE]])} :
       wr' = [wr EXCEPT !.phase = "settled", !.state = c.state,
                        !.error = c.value.error, !.lines = @ \o c.lines]
  /\ UNCHANGED <<exeVars, sysVars, repVars, flowVars, proc, lg, dep, og>>

InitWrite ==
  /\ wr \in {[NoWr EXCEPT !.disk = d, !.before = d] : d \in {"absent", "old"}}
  /\ proc = NoProc
  /\ lg = NoLg
  /\ dep = NoDep
  /\ og = NoOg
  /\ chain = NoChain
  /\ frm = NoFrm
  /\ gen = NoGen
  /\ rep = NoRep
  /\ exe = NewExecutable(Name("generate"), ".js", Undef, "fn")
  /\ res = NoRes
  /\ out = <<>>
  /\ sys = NewSystem
  /\ fs = NoFs

NextWrite ==
  \/ \E v \in {"bin", "part3"}, s \in BOOLEAN, f \in BOOLEAN, io \in BOOLEAN :
       ExecutableWrite(v, s, f, io)
  \/ \E a \in {"y", "n", "x"}, io \in BOOLEAN : ReadlineAccept(a, io)
  \/ ReadlineFails

SpecWrite == InitWrite /\ [][NextWrite]_vars

\* write settled for a file that existed, without force, and the user
\* answered n
Refused ==
  /\ wr.phase = "settled"
  /\ wr.before # "absent"
  /\ ~wr.force
  /\ wr.answered = "n"

\* C28 as stated: an existing file is replaced only with force or after
\* the answer y; after the answer n the content is unchanged and the
\* returned result carries an error.
C28_RefusalReturnsError ==
  /\ (wr.before # "absent" /\ wr.wrote) => (wr.force \/ wr.answered = "y")
  /\ Refused =>
       /\ wr.disk = wr.before
       /\ wr.state = "fulfilled"
       /\ wr.error # NoError

\* C28: an existing file is replaced only with force or after the answer
\* y. After the answer n the content is unchanged; the write of
\* src/bin/losh.js hands on a result that carries an error, returned with
\* strict mode off and thrown with strict mode on, and the write of
\* src/unnamed/part_003 logs an error and returns created: false without
\* an error in the result.
C28_NoReplaceWithoutConsent ==
  /\ (wr.before # "absent" /\ (wr.wrote \/ wr.disk # wr.before)) =>
       (wr.force \/ wr.answered = "y")
  /\ Refused =>
       /\ wr.disk = wr.before
       /\ ~wr.wrote
       /\ \E k \in DOMAIN wr.lines : wr.lines[k].level = "error"
       /\ wr.version = "bin" =>
            /\ wr.error # NoError
            /\ wr.state = (IF wr.strict THEN "rejected" ELSE "fulfilled")
       /\ wr.version = "part3" =>
            /\ wr.error = NoError
            /\ wr.created = "no"
            /\ wr.state = "fulfilled"

\* the user refused to overwrite an existing file, after one answer that
\* was neither y nor n
C28_Witness ==
  /\ Refused
  /\ wr.version = "bin"
  /\ ~wr.strict
  /\ wr.asks = 2
  /\ wr.disk = "old"
  /\ wr.error # NoError

\* the user agreed, and the existing file was replaced
C28_WitnessConsent ==
  /\ wr.phase = "settled"
  /\ wr.before = "old"
  /\ ~wr.force
  /\ wr.answered = "y"
  /\ wr.disk = "new"

\* ------------------------------------------- termination of Executable.form
\* every prompt is answered in the end, and a required field receives a
\* non-empty answer in the end: an answer that is not empty is not put off
\* for ever while the prompt waits for it
SpecFormFair ==
  /\ InitForm
  /\ [][NextForm]_vars
  /\ WF_vars(\E a \in Answers \ {<<>>} : Answer(a))

\* form has returned or thrown
FormEnded == frm.phase \in {"done", "failed", "rejected"}

\* C29: form collection terminates. Under the fairness of SpecFormFair a
\* called form ends, and when it ends after the last field it returns a
\* bag; the index of the field never goes back, and it stays the same over
\* an answer only when a required field got an empty answer.
C29_FormTerminates ==
  /\ frm.called ~> FormEnded
  /\ [](frm.phase = "done" => frm.result.returned /\ frm.result.hasBag)
  /\ [][/\ frm'.index >= frm.index
        /\ (frm.phase = "prompt" /\ frm'.phase = "prompt"
              /\ frm'.answered = frm.answered + 1 /\ frm'.index = frm.index) =>
             /\ frm.required
             /\ frm'.last.answer = <<>>
             /\ ~frm'.last.accepted]_vars

\* a form of MaxFields fields ended after a required field was asked twice
C29_Witness ==
  /\ frm.phase = "done"
  /\ Len(frm.fields) = MaxFields
  /\ frm.retries >= 1
  /\ Len(frm.prompts) > Len(frm.fields)
  /\ frm.result.hasBag

====
